---- MODULE Spec2Model ----
(***************************************************************************)
(* PodSweeper: the Gamemaster's reconciliation core.                       *)
(*                                                                         *)
(* The model holds the persisted GameState document (pkg/game), the pods   *)
(* of the game namespace as the Kubernetes client sees them, the           *)
(* controller's work queue and its reconcile workers, and the player who   *)
(* "clicks" by deleting pod-x-y.                                           *)
(***************************************************************************)
EXTENDS Integers, Sequences, FiniteSets, TLC

VARIABLES
    store,      \* the persisted GameState document, or NoState
    pods,       \* pod name -> [phase, hint] for every pod that exists
    queue,      \* the controller's work queue: FIFO of requests, no duplicates
    wk,         \* per reconcile worker: idle, or holding a request and the loaded state
    delivered,  \* the player's deletions reported while the game was being
                \* played and the coordinate was unrevealed
    ndist,      \* number of disturbances so far: player deletions and failed calls
    last,       \* the last handler call: which, for which coordinate, its outcome
    secret,     \* the Secret that holds the document: its data and resourceVersion
    cl,         \* per caller of the SecretStore: where it is in Load and Save
    mem,        \* a MemoryStore, the objects its callers hold, and the heap
    sp,         \* a GridSpawner call: the pods, the batch, the attempts
    gen,        \* a Generator and the layouts it has produced
    gs          \* a GameState under the calls of its methods, and the last call

vars ==
    <<store, pods, queue, wk, delivered, ndist, last, secret, cl, mem, sp, gen, gs>>

\* the controller's part of the state
ctlVars == <<store, pods, queue, wk, delivered, ndist, last>>

\* the value of a variable whose component is not part of the system at hand
Unused == [unused |-> TRUE]

----------------------------------------------------------------------------
(* Bounds of the exploration *)

\* the grids explored: Size x Size cells for a Size of GridSizes, with one of
\* MineCounts mines, any layout of them that leaves a safe cell
GridSizes == 1..3
MineCounts == 0..2
\* most disturbances in one run: pods the player deletes plus Reconcile calls
\* in which an I/O call site fails
MaxDisturbances == 2
\* most writes of the Secret in one run
MaxWrites == 3

----------------------------------------------------------------------------
(* pkg/game: GameState *)

StatusPlaying == "playing"
StatusWon == "won"
StatusLost == "lost"

\* the store holds no document
NoState == [absent |-> TRUE]

Coords(n) == (0..(n - 1)) \X (0..(n - 1))

\* the (dx, dy) offsets in the order of the nested loops dx, dy = -1..1
Offsets == << <<-1, -1>>, <<-1, 0>>, <<-1, 1>>, <<0, -1>>, <<0, 1>>,
              <<1, -1>>, <<1, 0>>, <<1, 1>> >>

\* NewGameState(size, seed) with the mines of a generated layout set:
\* MineMap and Revealed are the sets of coordinates whose entry is true
NewGameState(n, mines) ==
    [Size |-> n, Status |-> StatusPlaying, MineMap |-> mines,
     Revealed |-> {}, HintCells |-> <<>>, MineCount |-> Cardinality(mines),
     Ended |-> FALSE, Clicks |-> 0]

IsValidCoordinate(g, x, y) == x >= 0 /\ x < g.Size /\ y >= 0 /\ y < g.Size

IsMine(g, x, y) ==
    IF ~IsValidCoordinate(g, x, y) THEN FALSE ELSE <<x, y>> \in g.MineMap

IsRevealed(g, x, y) ==
    IF ~IsValidCoordinate(g, x, y) THEN FALSE ELSE <<x, y>> \in g.Revealed

\* a SetMine that counts a mine that is there already
SetMineCountsAgain(g, x, y) ==
    IF ~IsValidCoordinate(g, x, y) THEN [g |-> g, ok |-> FALSE]
    ELSE [g |-> [g EXCEPT !.MineMap = @ \cup {<<x, y>>}, !.MineCount = @ + 1],
          ok |-> TRUE]

\* SetMine: places a mine, counted once; false out of bounds
SetMine(g, x, y) ==
    IF ~IsValidCoordinate(g, x, y) THEN [g |-> g, ok |-> FALSE]
    ELSE IF <<x, y>> \in g.MineMap THEN [g |-> g, ok |-> TRUE]
    ELSE [g |-> [g EXCEPT !.MineMap = @ \cup {<<x, y>>}, !.MineCount = @ + 1],
          ok |-> TRUE]

\* a Reveal that forgets what was revealed before
RevealForgets(g, x, y) ==
    IF ~IsValidCoordinate(g, x, y) \/ <<x, y>> \in g.Revealed
    THEN [g |-> g, ok |-> FALSE]
    ELSE [g |-> [g EXCEPT !.Revealed = {<<x, y>>}, !.Clicks = @ + 1],
          ok |-> TRUE]

\* a Reveal that does not count the click
RevealUncounted(g, x, y) ==
    IF ~IsValidCoordinate(g, x, y) \/ <<x, y>> \in g.Revealed
    THEN [g |-> g, ok |-> FALSE]
    ELSE [g |-> [g EXCEPT !.Revealed = @ \cup {<<x, y>>}], ok |-> TRUE]

\* a Reveal that does not look whether the cell is revealed already
RevealAgain(g, x, y) ==
    IF ~IsValidCoordinate(g, x, y)
    THEN [g |-> g, ok |-> FALSE]
    ELSE [g |-> [g EXCEPT !.Revealed = @ \cup {<<x, y>>}, !.Clicks = @ + 1],
          ok |-> TRUE]

\* Reveal returns the changed state and the boolean the method returns
Reveal(g, x, y) ==
    IF ~IsValidCoordinate(g, x, y) \/ <<x, y>> \in g.Revealed
    THEN [g |-> g, ok |-> FALSE]
    ELSE [g |-> [g EXCEPT !.Revealed = @ \cup {<<x, y>>}, !.Clicks = @ + 1],
          ok |-> TRUE]

\* an AdjacentMines that does not skip the cell itself
AdjacentMinesWithSelf(g, x, y) ==
    Cardinality({d \in (-1..1) \X (-1..1) : IsMine(g, x + d[1], y + d[2])})

\* a GetNeighbors that leaves the diagonal neighbours out
GetNeighborsOrthogonal(g, x, y) ==
    LET all == [i \in 1..Len(Offsets) |->
                    <<x + Offsets[i][1], y + Offsets[i][2]>>]
    IN  SelectSeq(all, LAMBDA c : /\ IsValidCoordinate(g, c[1], c[2])
                                  /\ (c[1] = x \/ c[2] = y))

AdjacentMines(g, x, y) ==
    Cardinality({i \in 1..Len(Offsets) :
                    IsMine(g, x + Offsets[i][1], y + Offsets[i][2])})

GetNeighbors(g, x, y) ==
    LET all == [i \in 1..Len(Offsets) |->
                    <<x + Offsets[i][1], y + Offsets[i][2]>>]
    IN  SelectSeq(all, LAMBDA c : IsValidCoordinate(g, c[1], c[2]))

UnrevealedSafeCells(g) ==
    Cardinality({c \in Coords(g.Size) :
                    c \notin g.MineMap /\ c \notin g.Revealed})

\* a CheckVictory that waits for every cell to be revealed
CheckVictoryAllRevealed(g) == Cardinality(g.Revealed) = g.Size * g.Size

CheckVictory(g) == UnrevealedSafeCells(g) = 0

SetWon(g) == [g EXCEPT !.Status = StatusWon, !.Ended = TRUE]

SetLost(g) == [g EXCEPT !.Status = StatusLost, !.Ended = TRUE]

AddHintCell(g, x, y) == [g EXCEPT !.HintCells = Append(@, <<x, y>>)]

----------------------------------------------------------------------------
(* Pod names and requests *)

Namespace == "podsweeper-game"
OtherNamespace == "default"

\* Coordinate.PodName / GeneratePodName: "pod-<x>-<y>"
PodName(c) == [x |-> c[1], y |-> c[2], kind |-> "pod"]

\* Coordinate.HintPodName / GenerateHintPodName: "hint-<x>-<y>"
HintPodName(c) == [x |-> c[1], y |-> c[2], kind |-> "hint"]

VictoryName == [x |-> 0, y |-> 0, kind |-> "victory"]
ExplosionName == [x |-> 0, y |-> 0, kind |-> "explosion"]

\* a ParsePodName that takes the two numbers of any name that carries them
ParseAnyName(name) ==
    IF name.x >= 0 /\ name.y >= 0
    THEN [coords |-> <<name.x, name.y>>, ok |-> TRUE]
    ELSE [coords |-> <<0, 0>>, ok |-> FALSE]

\* ParsePodName: the coordinate of a name "pod-<x>-<y>", ok = FALSE otherwise
ParsePodName(name) ==
    IF name.kind = "pod" /\ name.x >= 0 /\ name.y >= 0
    THEN [coords |-> <<name.x, name.y>>, ok |-> TRUE]
    ELSE [coords |-> <<0, 0>>, ok |-> FALSE]

IsPodName(name) == name.kind = "pod" /\ name.x >= 0 /\ name.y >= 0

IsHintPodName(name) == name.kind = "hint" /\ name.x >= 0 /\ name.y >= 0

Request(name) == [ns |-> Namespace, name |-> name]

Range(q) == {q[i] : i \in 1..Len(q)}

Max(S) == CHOOSE m \in S : \A o \in S : o <= m

\* workqueue.Add: an item already waiting in the queue is not added again
Enqueue(q, r) == IF r \in Range(q) THEN q ELSE Append(q, r)

RECURSIVE EnqueueAll(_, _)
EnqueueAll(q, names) ==
    IF names = <<>> THEN q
    ELSE EnqueueAll(Enqueue(q, Request(Head(names))), Tail(names))

----------------------------------------------------------------------------
(* The Kubernetes client and the store, as the handlers use them.          *)
(* A world w is what one Reconcile call has made of the cluster so far:    *)
(* the pods, the persisted document, the names whose deletion it caused,   *)
(* the number of Save calls, and whether the injected fault was met.       *)

\* The I/O call that fails during one Reconcile call, if any: while a fault
\* is injected, every call made at that call site fails
NoFault == "none"

World(p, st) == [pods |-> p, store |-> st, events |-> <<>>, saves |-> 0, hit |-> FALSE]

\* client.Create: fails when the call fails or the name is taken (AlreadyExists)
ClientCreate(w, name, hint, failing) ==
    IF failing
    THEN [w |-> [w EXCEPT !.hit = TRUE], err |-> TRUE]
    ELSE IF name \in DOMAIN w.pods
    THEN [w |-> w, err |-> TRUE]
    ELSE [w |-> [w EXCEPT !.pods =
                    [n \in DOMAIN w.pods \cup {name} |->
                        IF n = name THEN [phase |-> "Running", hint |-> hint]
                        ELSE w.pods[n]]],
          err |-> FALSE]

\* client.Delete: NotFound when the pod is gone; a running pod is removed and
\* the watch reports its deletion; a pod already terminating stays so
ClientDelete(w, name, failing) ==
    IF failing
    THEN [w |-> [w EXCEPT !.hit = TRUE], err |-> TRUE, notFound |-> FALSE]
    ELSE IF name \notin DOMAIN w.pods
    THEN [w |-> w, err |-> TRUE, notFound |-> TRUE]
    ELSE IF w.pods[name].phase = "Terminating"
    THEN [w |-> w, err |-> FALSE, notFound |-> FALSE]
    ELSE [w |-> [w EXCEPT !.pods = [n \in DOMAIN w.pods \ {name} |-> w.pods[n]],
                          !.events = Append(@, name)],
          err |-> FALSE, notFound |-> FALSE]

\* Store.Save: whole-document replacement, or an error that leaves the store
StoreSave(w, g, f) ==
    IF f = "save"
    THEN [w |-> [w EXCEPT !.hit = TRUE, !.saves = @ + 1], err |-> TRUE]
    ELSE [w |-> [w EXCEPT !.store = g, !.saves = @ + 1], err |-> FALSE]

----------------------------------------------------------------------------
(* internal/controller: GameHandlers *)

\* a spawnHintPod that leaves the hint value out of the annotation
spawnHintPodBlank(w, coords, hintValue, f) ==
    ClientCreate(w, HintPodName(coords), 0, f = "createHint")

\* spawnHintPod: create hint-x-y annotated with the hint value
spawnHintPod(w, coords, hintValue, f) ==
    ClientCreate(w, HintPodName(coords), hintValue, f = "createHint")

\* spawnExplosionPod: create the pod "explosion"
spawnExplosionPod(w, f) == ClientCreate(w, ExplosionName, -1, f = "createMarker")

\* spawnVictoryPod: create the pod "victory"
spawnVictoryPod(w, f) == ClientCreate(w, VictoryName, -1, f = "createMarker")

\* deletePod: delete pod-x-y, a pod that is already gone is no error
deletePod(w, coords, f) ==
    LET r == ClientDelete(w, PodName(coords), f = "delete")
    IN  [w |-> r.w, err |-> r.err /\ ~r.notFound]

\* the order in which the API server lists the pods: by name
NameRank(name) ==
    (IF name.kind = "pod" THEN 10000 ELSE 0) + 100 * name.x + name.y

RECURSIVE SortNames(_)
SortNames(S) ==
    IF S = {} THEN <<>>
    ELSE LET m == CHOOSE n \in S : \A o \in S : NameRank(n) <= NameRank(o)
         IN  <<m>> \o SortNames(S \ {m})

\* a wipe loop that deletes the cell pods and leaves the hint pods
RECURSIVE wipeLoopCells(_, _, _)
wipeLoopCells(w, items, f) ==
    IF items = <<>> THEN w
    ELSE LET name == Head(items)
         IN  IF IsPodName(name)
             THEN wipeLoopCells(ClientDelete(w, name, f = "delete").w, Tail(items), f)
             ELSE wipeLoopCells(w, Tail(items), f)

RECURSIVE wipeLoop(_, _, _)
wipeLoop(w, items, f) ==
    IF items = <<>> THEN w
    ELSE LET name == Head(items)
         IN  IF IsPodName(name) \/ IsHintPodName(name)
             THEN wipeLoop(ClientDelete(w, name, f = "delete").w, Tail(items), f)
             ELSE wipeLoop(w, Tail(items), f)

\* wipeGamePods: list the namespace, delete every pod-x-y and hint-x-y;
\* a failed deletion is logged and the loop goes on
wipeGamePods(w, f) ==
    IF f = "list"
    THEN [w |-> [w EXCEPT !.hit = TRUE], err |-> TRUE]
    ELSE [w |-> wipeLoop(w, SortNames(DOMAIN w.pods), f), err |-> FALSE]

\* a loop that goes on from the cells with adjacent mines too
RECURSIVE bfsLoopExpandBoundary(_, _, _, _, _)
bfsLoopExpandBoundary(g, q, visited, empty, boundary) ==
    IF q = <<>> THEN [empty |-> empty, boundary |-> boundary]
    ELSE LET current == Head(q)
             new == SelectSeq(GetNeighbors(g, current[1], current[2]),
                        LAMBDA n : /\ n \notin visited
                                   /\ ~IsRevealed(g, n[1], n[2])
                                   /\ ~IsMine(g, n[1], n[2]))
         IN  IF AdjacentMines(g, current[1], current[2]) = 0
             THEN bfsLoopExpandBoundary(g, Tail(q) \o new, visited \cup Range(new),
                                        Append(empty, current), boundary)
             ELSE bfsLoopExpandBoundary(g, Tail(q) \o new, visited \cup Range(new),
                                        empty, Append(boundary, current))

\* a loop that marks a coordinate as visited when it leaves the queue, not
\* when it enters it
RECURSIVE bfsLoopMarkAtDequeue(_, _, _, _, _)
bfsLoopMarkAtDequeue(g, q, visited, empty, boundary) ==
    IF q = <<>> THEN [empty |-> empty, boundary |-> boundary]
    ELSE LET current == Head(q)
             seen    == visited \cup {current}
         IN  IF AdjacentMines(g, current[1], current[2]) = 0
             THEN LET new == SelectSeq(GetNeighbors(g, current[1], current[2]),
                                LAMBDA n : /\ n \notin seen
                                           /\ ~IsRevealed(g, n[1], n[2])
                                           /\ ~IsMine(g, n[1], n[2]))
                  IN  bfsLoopMarkAtDequeue(g, Tail(q) \o new, seen,
                                           Append(empty, current), boundary)
             ELSE bfsLoopMarkAtDequeue(g, Tail(q), seen, empty,
                                       Append(boundary, current))

\* the loop of bfsPropagation: q is the queue, visited the keys of the map
RECURSIVE bfsLoop(_, _, _, _, _)
bfsLoop(g, q, visited, empty, boundary) ==
    IF q = <<>> THEN [empty |-> empty, boundary |-> boundary]
    ELSE LET current == Head(q)
         IN  IF AdjacentMines(g, current[1], current[2]) = 0
             THEN LET new == SelectSeq(GetNeighbors(g, current[1], current[2]),
                                LAMBDA n : /\ n \notin visited
                                           /\ ~IsRevealed(g, n[1], n[2])
                                           /\ ~IsMine(g, n[1], n[2]))
                  IN  bfsLoop(g, Tail(q) \o new, visited \cup Range(new),
                              Append(empty, current), boundary)
             ELSE bfsLoop(g, Tail(q), visited, empty, Append(boundary, current))

\* bfsPropagation: the connected empty cells and their boundary of hint cells
bfsPropagation(g, start) == bfsLoop(g, <<start>>, {start}, <<>>, <<>>)

\* a handleVictory that saves the state without SetWon
handleVictoryPlaying(g, w, f) ==
    LET s == StoreSave(w, g, f)
    IN  IF s.err THEN [w |-> s.w, err |-> TRUE]
        ELSE ClientCreate(s.w, VictoryName, -1, f = "createMarker")

\* a handleVictory that creates the victory pod before it saves
handleVictoryMarkerFirst(g, w, f) ==
    LET v == spawnVictoryPod(w, f)
    IN  IF v.err THEN v
        ELSE StoreSave(v.w, SetWon(g), f)

\* handleVictory: SetWon, Save, then the victory pod
handleVictory(g, w, f) ==
    LET s == StoreSave(w, SetWon(g), f)
    IN  IF s.err THEN [w |-> s.w, err |-> TRUE]
        ELSE spawnVictoryPod(s.w, f)

\* a HandleMineHit that wipes the pods before it saves the lost game
HandleMineHitWipeFirst(g, w, coords, f) ==
    LET g1 == SetLost(Reveal(g, coords[1], coords[2]).g)
        wp == wipeGamePods(w, f)
    IN  IF wp.err THEN [w |-> wp.w, err |-> TRUE]
        ELSE LET s == StoreSave(wp.w, g1, f)
             IN  IF s.err THEN [w |-> s.w, err |-> TRUE]
                 ELSE spawnExplosionPod(s.w, f)

\* HandleMineHit: Reveal, SetLost, Save, wipe the game pods, the explosion pod
HandleMineHit(g, w, coords, f) ==
    LET g1 == SetLost(Reveal(g, coords[1], coords[2]).g)
        s  == StoreSave(w, g1, f)
    IN  IF s.err THEN [w |-> s.w, err |-> TRUE]
        ELSE LET wp == wipeGamePods(s.w, f)
             IN  IF wp.err THEN [w |-> wp.w, err |-> TRUE]
                 ELSE spawnExplosionPod(wp.w, f)

\* a HandleHintCell that saves without the victory check
HandleHintCellNoVictory(g, w, coords, hintValue, f) ==
    LET g1 == AddHintCell(Reveal(g, coords[1], coords[2]).g, coords[1], coords[2])
        h  == spawnHintPod(w, coords, hintValue, f)
    IN  IF h.err THEN [w |-> h.w, err |-> TRUE]
        ELSE StoreSave(h.w, g1, f)

\* a HandleHintCell that logs a failed hint pod and saves all the same
HandleHintCellSavesAnyway(g, w, coords, hintValue, f) ==
    LET g1 == AddHintCell(Reveal(g, coords[1], coords[2]).g, coords[1], coords[2])
        h  == spawnHintPod(w, coords, hintValue, f)
    IN  IF CheckVictory(g1) THEN handleVictory(g1, h.w, f)
        ELSE StoreSave(h.w, g1, f)

\* HandleHintCell: Reveal, AddHintCell, the hint pod, victory check, Save
HandleHintCell(g, w, coords, hintValue, f) ==
    LET g1 == AddHintCell(Reveal(g, coords[1], coords[2]).g, coords[1], coords[2])
        h  == spawnHintPod(w, coords, hintValue, f)
    IN  IF h.err THEN [w |-> h.w, err |-> TRUE]
        ELSE IF CheckVictory(g1) THEN handleVictory(g1, h.w, f)
        ELSE StoreSave(h.w, g1, f)

RECURSIVE revealAll(_, _)
revealAll(g, cells) ==
    IF cells = <<>> THEN g
    ELSE revealAll(Reveal(g, Head(cells)[1], Head(cells)[2]).g, Tail(cells))

\* the deletions of the empty cells' pods; a failure is logged, the loop goes on
RECURSIVE deleteAll(_, _, _)
deleteAll(w, cells, f) ==
    IF cells = <<>> THEN w
    ELSE deleteAll(deletePod(w, Head(cells), f).w, Tail(cells), f)

\* the loop over the boundary cells: Reveal, AddHintCell, delete the pod,
\* spawn the hint pod; failures are logged, the loop goes on
RECURSIVE boundaryLoop(_, _, _, _)
boundaryLoop(g, w, cells, f) ==
    IF cells = <<>> THEN [g |-> g, w |-> w]
    ELSE LET c  == Head(cells)
             hv == AdjacentMines(g, c[1], c[2])
             g1 == AddHintCell(Reveal(g, c[1], c[2]).g, c[1], c[2])
             w1 == deletePod(w, c, f).w
             w2 == spawnHintPod(w1, c, hv, f).w
         IN  boundaryLoop(g1, w2, Tail(cells), f)

\* HandleEmptyCell: BFS, reveal and delete the empty cells, turn the boundary
\* cells into hint pods, victory check, Save
HandleEmptyCell(g, w, coords, f) ==
    LET bfs == bfsPropagation(g, coords)
        g1  == revealAll(g, bfs.empty)
        w1  == deleteAll(w, bfs.empty, f)
        b   == boundaryLoop(g1, w1, bfs.boundary, f)
    IN  IF CheckVictory(b.g) THEN handleVictory(b.g, b.w, f)
        ELSE StoreSave(b.w, b.g, f)

----------------------------------------------------------------------------
(* internal/controller: GameController *)

\* a controller built with two reconcile workers
ConcurrentReconciles == 1 + 1

\* controller-runtime runs one reconcile worker unless the controller is
\* built with another MaxConcurrentReconciles; SetupWithManager sets none
MaxConcurrentReconciles == 1

Workers == 1..MaxConcurrentReconciles

NoRequest == [name |-> [x |-> 0, y |-> 0, kind |-> ""], ns |-> ""]

Idle == [pc |-> "idle", req |-> NoRequest, coords |-> <<0, 0>>, state |-> NoState]

\* no handler has been called yet
NoHandler ==
    [handler |-> "none", coords |-> <<0, 0>>, fault |-> NoFault,
     err |-> FALSE, saves |-> 0]

\* a Reconcile that does not look at the status of the loaded state
ReconcileHeadAnyStatus(req, f) ==
    LET p == ParsePodName(req.name)
        out(branch, err, hit) ==
            [branch |-> branch, err |-> err, hit |-> hit, coords |-> p.coords]
    IN  IF req.ns # Namespace THEN out("otherNamespace", FALSE, FALSE)
        ELSE IF ~p.ok THEN out("notGamePod", FALSE, FALSE)
        ELSE IF f = "get" THEN out("getFailed", TRUE, TRUE)
        ELSE IF req.name \in DOMAIN pods
        THEN IF pods[req.name].phase = "Terminating"
             THEN out("terminating", FALSE, FALSE)
             ELSE out("exists", FALSE, FALSE)
        ELSE IF f = "load" THEN out("loadFailed", TRUE, TRUE)
        ELSE IF store = NoState THEN out("noGame", FALSE, FALSE)
        ELSE IF IsRevealed(store, p.coords[1], p.coords[2])
        THEN out("alreadyRevealed", FALSE, FALSE)
        ELSE out("handler", FALSE, FALSE)

\* a Reconcile that takes a pod with a deletion timestamp for a deleted pod
ReconcileHeadOnTerminating(req, f) ==
    LET p == ParsePodName(req.name)
        out(branch, err, hit) ==
            [branch |-> branch, err |-> err, hit |-> hit, coords |-> p.coords]
    IN  IF req.ns # Namespace THEN out("otherNamespace", FALSE, FALSE)
        ELSE IF ~p.ok THEN out("notGamePod", FALSE, FALSE)
        ELSE IF f = "get" THEN out("getFailed", TRUE, TRUE)
        ELSE IF req.name \in DOMAIN pods /\ pods[req.name].phase # "Terminating"
        THEN out("exists", FALSE, FALSE)
        ELSE IF f = "load" THEN out("loadFailed", TRUE, TRUE)
        ELSE IF store = NoState THEN out("noGame", FALSE, FALSE)
        ELSE IF store.Status # StatusPlaying THEN out("gameOver", FALSE, FALSE)
        ELSE IF IsRevealed(store, p.coords[1], p.coords[2])
        THEN out("alreadyRevealed", FALSE, FALSE)
        ELSE out("handler", FALSE, FALSE)

\* Reconcile up to the call of a handler, for request req and injected fault f:
\* the namespace and name checks, the Get of the pod, and handlePodDeletion's
\* Load and its checks of the loaded state. branch names the return taken,
\* "handler" when a handler is to be called on the loaded state.
ReconcileHead(req, f) ==
    LET p == ParsePodName(req.name)
        x == p.coords[1]
        y == p.coords[2]
        out(branch, err, hit) ==
            [branch |-> branch, err |-> err, hit |-> hit, coords |-> p.coords]
    IN  IF req.ns # Namespace THEN out("otherNamespace", FALSE, FALSE)
        ELSE IF ~p.ok THEN out("notGamePod", FALSE, FALSE)
        ELSE IF f = "get" THEN out("getFailed", TRUE, TRUE)
        ELSE IF req.name \in DOMAIN pods
        THEN IF pods[req.name].phase = "Terminating"
             THEN out("terminating", FALSE, FALSE)
             ELSE out("exists", FALSE, FALSE)
        ELSE IF f = "load" THEN out("loadFailed", TRUE, TRUE)
        ELSE IF store = NoState THEN out("noGame", FALSE, FALSE)
        ELSE IF store.Status # StatusPlaying THEN out("gameOver", FALSE, FALSE)
        ELSE IF IsRevealed(store, x, y) THEN out("alreadyRevealed", FALSE, FALSE)
        ELSE out("handler", FALSE, FALSE)

\* which handler handlePodDeletion calls for an unrevealed coordinate
Classify(g, coords) ==
    IF IsMine(g, coords[1], coords[2]) THEN "mine"
    ELSE IF AdjacentMines(g, coords[1], coords[2]) > 0 THEN "hint"
    ELSE "empty"

\* a handlePodDeletion without the mine check
DispatchNoMineCheck(g, w, coords, f) ==
    LET adjacentMines == AdjacentMines(g, coords[1], coords[2])
    IN  IF adjacentMines > 0
        THEN HandleHintCell(g, w, coords, adjacentMines, f)
        ELSE HandleEmptyCell(g, w, coords, f)

\* handlePodDeletion from the classification on: the handler's result
Dispatch(g, w, coords, f) ==
    IF IsMine(g, coords[1], coords[2])
    THEN HandleMineHit(g, w, coords, f)
    ELSE LET adjacentMines == AdjacentMines(g, coords[1], coords[2])
         IN  IF adjacentMines > 0
             THEN HandleHintCell(g, w, coords, adjacentMines, f)
             ELSE HandleEmptyCell(g, w, coords, f)

HeadFaults ==
    IF ndist < MaxDisturbances THEN {NoFault, "get", "load"} ELSE {NoFault}

HandlerFaults ==
    IF ndist < MaxDisturbances
    THEN {NoFault, "save", "list", "createHint", "createMarker", "delete"}
    ELSE {NoFault}

\* a worker takes the next request and runs Reconcile up to the handler call;
\* a request that ends there is done, and is queued again when it failed
Begin(k) ==
    /\ wk[k].pc = "idle"
    /\ queue # <<>>
    /\ \E f \in HeadFaults :
         LET req == Head(queue)
             r   == ReconcileHead(req, f)
         IN  /\ f = NoFault \/ r.hit
             /\ ndist' = IF r.hit THEN ndist + 1 ELSE ndist
             /\ IF r.branch = "handler"
                THEN /\ wk' = [wk EXCEPT ![k] = [pc |-> "handling", req |-> req,
                                                coords |-> r.coords, state |-> store]]
                     /\ queue' = Tail(queue)
                     /\ UNCHANGED last
                ELSE /\ queue' = IF r.err THEN Enqueue(Tail(queue), req)
                                 ELSE Tail(queue)
                     /\ UNCHANGED <<wk, last>>
    /\ UNCHANGED <<store, pods, delivered, secret, cl, mem, sp, gen, gs>>

\* the worker runs the handler on the state it loaded; the deletions the
\* handler caused are reported by the watch, and a failed request is queued again
Handle(k) ==
    /\ wk[k].pc = "handling"
    /\ \E f \in HandlerFaults :
         LET r == Dispatch(wk[k].state, World(pods, store), wk[k].coords, f)
             q == EnqueueAll(queue, r.w.events)
         IN  /\ f = NoFault \/ r.w.hit
             /\ ndist' = IF r.w.hit THEN ndist + 1 ELSE ndist
             /\ store' = r.w.store
             /\ pods' = r.w.pods
             /\ queue' = IF r.err THEN Enqueue(q, wk[k].req) ELSE q
             /\ last' = [handler |-> Classify(wk[k].state, wk[k].coords),
                         coords |-> wk[k].coords, fault |-> f,
                         err |-> r.err, saves |-> r.w.saves]
    /\ wk' = [wk EXCEPT ![k] = Idle]
    /\ UNCHANGED <<delivered, secret, cl, mem, sp, gen, gs>>

----------------------------------------------------------------------------
(* pkg/game: SecretStore, used by callers that run side by side *)

\* ToJSON: the document as json.Marshal writes it: the grids as arrays of
\* booleans, hintCells left out when there is none (omitempty)
ToJSON(g) ==
    LET doc == [size |-> g.Size, status |-> g.Status,
                mineMap |-> [c \in Coords(g.Size) |-> c \in g.MineMap],
                revealed |-> [c \in Coords(g.Size) |-> c \in g.Revealed],
                mineCount |-> g.MineCount, ended |-> g.Ended, clicks |-> g.Clicks]
    IN  IF g.HintCells = <<>> THEN doc
        ELSE [k \in DOMAIN doc \cup {"hintCells"} |->
                 IF k = "hintCells" THEN g.HintCells ELSE doc[k]]

\* FromJSON: json.Unmarshal into a GameState; a key left out leaves the zero value
FromJSON(data) ==
    [Size |-> data.size, Status |-> data.status,
     MineMap |-> {c \in DOMAIN data.mineMap : data.mineMap[c]},
     Revealed |-> {c \in DOMAIN data.revealed : data.revealed[c]},
     HintCells |-> IF "hintCells" \in DOMAIN data THEN data.hintCells ELSE <<>>,
     MineCount |-> data.mineCount, Ended |-> data.ended, Clicks |-> data.clicks]

Callers == {"a", "b"}

\* the Secret does not exist
NoSecret == [absent |-> TRUE]

\* a caller that has called nothing yet
NoCall ==
    [pc |-> "idle", doc |-> NoState, got |-> NoSecret, replaced |-> FALSE,
     replacedAtSave |-> FALSE, op |-> "none", res |-> "none"]

\* the grid size and the mines of the games the callers save
StoreGridSize == 2
StoreMines == {<<0, 0>>}

----------------------------------------------------------------------------
(* The player and the cluster *)

\* A step of the player or the cluster between a worker's Load and the end of
\* its handler leads to no state that the same step before the Load does not
\* lead to (the handler reads the pods only through Delete and Create, whose
\* outcome for a terminating pod and for a pod that is gone leaves the same
\* pods), so these steps are taken while no handler is under way.
AllIdle == \A k \in Workers : wk[k].pc = "idle"

\* kubectl delete pod pod-x-y: the pod starts terminating
PlayerDelete(c) ==
    /\ AllIdle
    /\ ndist < MaxDisturbances
    /\ PodName(c) \in DOMAIN pods
    /\ pods[PodName(c)].phase = "Running"
    /\ pods' = [pods EXCEPT ![PodName(c)].phase = "Terminating"]
    /\ queue' = Enqueue(queue, Request(PodName(c)))
    /\ ndist' = ndist + 1
    /\ UNCHANGED <<store, wk, delivered, last, secret, cl, mem, sp, gen, gs>>

\* the kubelet has stopped the pod: the pod is gone
FinishTermination(name) ==
    /\ AllIdle
    /\ name \in DOMAIN pods
    /\ pods[name].phase = "Terminating"
    /\ pods' = [n \in DOMAIN pods \ {name} |-> pods[n]]
    /\ queue' = Enqueue(queue, Request(name))
    /\ delivered' = IF /\ store # NoState
                       /\ store.Status = StatusPlaying
                       /\ ~IsRevealed(store, name.x, name.y)
                    THEN delivered \cup {<<name.x, name.y>>}
                    ELSE delivered
    /\ UNCHANGED <<store, wk, ndist, last, secret, cl, mem, sp, gen, gs>>

\* requests that are none of the game's cells: a pod of another namespace,
\* a hint pod, the victory and the explosion pod, and a name that the
\* pattern pod-<digits>-<digits> does not match ("pod--1-0")
ForeignKinds == {"hint", "victory", "explosion", "namespace", "pattern"}

ForeignRequest(kind) ==
    CASE kind = "namespace" -> [ns |-> OtherNamespace, name |-> PodName(<<0, 0>>)]
      [] kind = "hint"      -> Request(HintPodName(<<0, 0>>))
      [] kind = "victory"   -> Request(VictoryName)
      [] kind = "explosion" -> Request(ExplosionName)
      [] kind = "pattern"   -> Request(PodName(<<-1, 0>>))

\* the watch reports an event of such a pod. Reconcile returns for it before
\* it reads anything, whatever else waits, so the event is taken to arrive
\* while nothing waits
ForeignEvent(req) ==
    /\ AllIdle
    /\ ndist < MaxDisturbances
    /\ queue = <<>>
    /\ queue' = <<req>>
    /\ ndist' = ndist + 1
    /\ UNCHANGED <<store, pods, wk, delivered, last, secret, cl, mem, sp, gen, gs>>

----------------------------------------------------------------------------
(* The system *)

\* the layouts the generator can lay on an n x n grid: at least one safe cell
Layouts(n) ==
    {m \in SUBSET Coords(n) :
        Cardinality(m) \in MineCounts /\ Cardinality(m) <= n * n - 1}

\* the grid has been spawned; a game has been started, or none is persisted
Init ==
    \E n \in GridSizes :
      /\ pods = [name \in {PodName(c) : c \in Coords(n)} |->
                    [phase |-> "Running", hint |-> -1]]
      /\ \E m \in Layouts(n) : store \in {NewGameState(n, m), NoState}
      /\ queue = <<>>
      /\ wk = [k \in Workers |-> Idle]
      /\ delivered = {}
      /\ ndist = 0
      /\ last = NoHandler
      /\ secret = NoSecret
      /\ cl = [c \in Callers |-> NoCall]
      /\ mem = Unused
      /\ sp = Unused
      /\ gen = Unused
      /\ gs = Unused

Next ==
    \/ \E k \in Workers : Begin(k)
    \/ \E k \in Workers : Handle(k)
    \/ \E c \in Coords(Max(GridSizes)) : PlayerDelete(c)
    \/ \E c \in Coords(Max(GridSizes)) : FinishTermination(PodName(c))
    \/ \E kind \in ForeignKinds : ForeignEvent(ForeignRequest(kind))

Spec == Init /\ [][Next]_vars

\* Progress is checked on the games of one grid size.
LiveGridSize == 2

InitLive == Init /\ store # NoState /\ store.Size = LiveGridSize

\* The workers run for as long as the manager runs: a worker takes whatever
\* waits in the queue, and a handler it has called returns (Handle is enabled
\* exactly while the worker is handling, and leaves it idle). The kubelet stops
\* every pod that is being deleted. The player and the failures of the API are
\* under no obligation.
FairSpec ==
    /\ InitLive
    /\ [][Next]_vars
    /\ WF_vars(\E k \in Workers : Begin(k))
    /\ \A k \in Workers : []<>(wk[k].pc = "idle")
    /\ WF_vars(\E c \in Coords(Max(GridSizes)) : FinishTermination(PodName(c)))

----------------------------------------------------------------------------
(* Deletions of pods that bear a cell name outside the grid *)

\* the coordinates of such pods: beside the grid's last row, and off its corner
OutsideCells == {<<LiveGridSize, 0>>, <<LiveGridSize, LiveGridSize>>}

\* a pod named pod-x-y with x or y beyond the grid was created in the
\* namespace and has been deleted: the watch reports the deletion, the name
\* matches the pattern, and the Get of the pod finds nothing
OutsideDelete(c) ==
    /\ AllIdle
    /\ ndist < MaxDisturbances
    /\ store # NoState
    /\ ~IsValidCoordinate(store, c[1], c[2])
    /\ PodName(c) \notin DOMAIN pods
    /\ queue' = Enqueue(queue, Request(PodName(c)))
    /\ ndist' = ndist + 1
    /\ UNCHANGED <<store, pods, wk, delivered, last, secret, cl, mem, sp, gen, gs>>

NextOutside ==
    \/ Next
    \/ \E c \in OutsideCells : OutsideDelete(c)

SpecOutside == InitLive /\ [][NextOutside]_vars

----------------------------------------------------------------------------
(* The callers of the SecretStore *)

\* SecretStore.Load: Get the Secret and parse its data
StoreLoad(c) ==
    /\ cl[c].pc = "idle"
    /\ cl' = [cl EXCEPT ![c] =
                IF secret = NoSecret
                THEN [@ EXCEPT !.pc = "idle", !.op = "load", !.res = "noState"]
                ELSE [@ EXCEPT !.pc = "loaded", !.doc = FromJSON(secret.data),
                               !.replaced = FALSE, !.op = "load", !.res = "ok"]]
    /\ UNCHANGED <<secret, ctlVars, mem, sp, gen, gs>>

\* a caller that found no game makes a new one
StoreNewGame(c) ==
    /\ cl[c].pc = "idle"
    /\ cl[c].op = "load" /\ cl[c].res = "noState"
    /\ cl' = [cl EXCEPT ![c] =
                [@ EXCEPT !.pc = "loaded", !.replaced = FALSE,
                          !.doc = NewGameState(StoreGridSize, StoreMines)]]
    /\ UNCHANGED <<secret, ctlVars, mem, sp, gen, gs>>

\* the caller changes the state it has loaded: it reveals a cell
StoreMutate(c, xy) ==
    /\ cl[c].pc = "loaded"
    /\ Reveal(cl[c].doc, xy[1], xy[2]).ok
    /\ cl' = [cl EXCEPT ![c] =
                [@ EXCEPT !.pc = "changed", !.doc = Reveal(@, xy[1], xy[2]).g]]
    /\ UNCHANGED <<secret, ctlVars, mem, sp, gen, gs>>

\* SecretStore.Save, first half: ToJSON, then Get the Secret as it is now
StoreSaveGet(c) ==
    /\ cl[c].pc \in {"loaded", "changed"}
    /\ IF secret = NoSecret THEN TRUE ELSE secret.rv < MaxWrites
    /\ cl' = [cl EXCEPT ![c] =
                [@ EXCEPT !.pc = "saving", !.got = secret,
                          !.replacedAtSave = cl[c].replaced]]
    /\ UNCHANGED <<secret, ctlVars, mem, sp, gen, gs>>

\* SecretStore.Save, second half: Create when the Get found nothing, else
\* Update the Secret that the Get returned; the API server refuses an Update
\* whose resourceVersion is not the current one
StoreSaveWrite(c) ==
    /\ cl[c].pc = "saving"
    /\ LET data == ToJSON(cl[c].doc)
           res  == IF cl[c].got = NoSecret
                   THEN IF secret = NoSecret THEN "ok" ELSE "error"
                   ELSE IF secret = NoSecret THEN "error"
                   ELSE IF secret.rv # cl[c].got.rv THEN "conflict"
                   ELSE "ok"
       IN  /\ secret' = IF res # "ok" THEN secret
                        ELSE IF secret = NoSecret THEN [data |-> data, rv |-> 1]
                        ELSE [data |-> data, rv |-> secret.rv + 1]
           /\ cl' = [o \in Callers |->
                       IF o = c
                       THEN [cl[o] EXCEPT !.pc = "idle", !.op = "save", !.res = res,
                                          !.doc = NoState, !.got = NoSecret]
                       ELSE IF res = "ok" /\ cl[o].pc # "idle"
                       THEN [cl[o] EXCEPT !.replaced = TRUE]
                       ELSE cl[o]]
    /\ UNCHANGED <<ctlVars, mem, sp, gen, gs>>

InitStore ==
    /\ secret \in {NoSecret,
                   [data |-> ToJSON(NewGameState(StoreGridSize, StoreMines)), rv |-> 1]}
    /\ cl = [c \in Callers |-> NoCall]
    /\ mem = Unused
    /\ sp = Unused
    /\ gen = Unused
    /\ gs = Unused
    /\ store = NoState
    /\ pods = [name \in {} |-> [phase |-> "Running", hint |-> -1]]
    /\ queue = <<>>
    /\ wk = [k \in Workers |-> Idle]
    /\ delivered = {}
    /\ ndist = 0
    /\ last = NoHandler

NextStore ==
    \/ \E c \in Callers : StoreLoad(c)
    \/ \E c \in Callers : StoreNewGame(c)
    \/ \E c \in Callers : \E xy \in Coords(StoreGridSize) : StoreMutate(c, xy)
    \/ \E c \in Callers : StoreSaveGet(c)
    \/ \E c \in Callers : StoreSaveWrite(c)

SpecStore == InitStore /\ [][NextStore]_vars

\* C3: when another writer has replaced the persisted document after a
\* caller's Load and before that caller's Save, the caller's Save returns a
\* conflict (and so does not overwrite the other writer's document).
C3_StaleSaveReturnsConflict ==
    \A c \in Callers :
      (cl[c].op = "save" /\ cl[c].pc = "idle" /\ cl[c].replacedAtSave) =>
          cl[c].res = "conflict"

----------------------------------------------------------------------------
(* pkg/game: MemoryStore, and GameState.Clone on a heap *)

(* A *GameState is the address of a struct on the heap. The struct holds the  *)
(* scalar fields, the HintCells slice (append on a slice that is full, as     *)
(* Clone and NewGameState make them, copies it), and the addresses of the     *)
(* arrays behind MineMap and Revealed, which SetMine and Reveal write in      *)
(* place. Address 0 is nil.                                                   *)

ObjAddrs == 1..4
ArrAddrs == 1..8

NoObj == [free |-> TRUE]
\* an array is the set of the coordinates whose element is true
NoArr == [free |-> TRUE, cells |-> {}]
Array(S) == [free |-> FALSE, cells |-> S]

MemCallers == {"a", "b"}

\* the grid size of the games the callers make
MemGridSize == 2
\* the cell a caller reveals and the cell it mines
MemRevealCell == <<0, 0>>
MemMineCell == <<1, 1>>

\* the store holds no state
Absent == [absent |-> TRUE]

MinOf(S) == CHOOSE m \in S : \A o \in S : m <= o

FreeObjs(m) == {a \in ObjAddrs : m.objs[a] = NoObj}
FreeArrs(m) == {a \in ArrAddrs : m.arrs[a] = NoArr}

\* the GameState that the struct at address a amounts to
Deep(m, a) ==
    IF a = 0 THEN Absent
    ELSE LET o == m.objs[a]
         IN  [Size |-> o.Size, Status |-> o.Status,
              MineMap |-> m.arrs[o.mm].cells, Revealed |-> m.arrs[o.rv].cells,
              HintCells |-> o.HintCells, MineCount |-> o.MineCount,
              Ended |-> o.Ended, Clicks |-> o.Clicks]

\* a struct with the scalars of g and the arrays at mm and rv
Struct(g, mm, rv) ==
    [Size |-> g.Size, Status |-> g.Status, HintCells |-> g.HintCells,
     MineCount |-> g.MineCount, Ended |-> g.Ended, Clicks |-> g.Clicks,
     mm |-> mm, rv |-> rv]

\* allocate a struct for the GameState g, with arrays of its own
Allocate(m, g) ==
    LET n  == MinOf(FreeObjs(m))
        a1 == MinOf(FreeArrs(m))
        a2 == MinOf(FreeArrs(m) \ {a1})
    IN  [m |-> [m EXCEPT !.objs[n] = Struct(g, a1, a2),
                         !.arrs[a1] = Array(g.MineMap),
                         !.arrs[a2] = Array(g.Revealed)],
         addr |-> n]

\* a Clone that hands back the receiver itself
CloneSame(m, a) == [m |-> m, addr |-> a]

\* a Clone that copies the struct and shares the arrays behind the slices
CloneShallow(m, a) ==
    LET n == MinOf(FreeObjs(m))
    IN  [m |-> [m EXCEPT !.objs[n] = m.objs[a]], addr |-> n]

\* GameState.Clone: a new struct, new arrays, every element copied
Clone(m, a) == Allocate(m, Deep(m, a))

\* the garbage collector: what no caller and not the store can reach is freed
Collect(m) ==
    LET live == ({m.state} \cup {m.held[c] : c \in MemCallers}) \ {0}
        arrs == UNION {{m.objs[a].mm, m.objs[a].rv} : a \in live}
    IN  [m EXCEPT !.objs = [a \in ObjAddrs |-> IF a \in live THEN @[a] ELSE NoObj],
                  !.arrs = [a \in ArrAddrs |-> IF a \in arrs THEN @[a] ELSE NoArr]]

\* NewMemoryStore, two callers that hold nothing; reg is the document of the
\* latest Save, Absent after a Delete or Reset, and out is what the latest
\* call of the store has returned
MemInit ==
    [objs |-> [a \in ObjAddrs |-> NoObj], arrs |-> [a \in ArrAddrs |-> NoArr],
     state |-> 0, held |-> [c \in MemCallers |-> 0],
     reg |-> Absent, out |-> [op |-> "none", value |-> Absent, err |-> FALSE]]

\* NewGameState: the caller makes a state of its own
MemNew(c) ==
    /\ LET r == Allocate([mem EXCEPT !.held[c] = 0], NewGameState(MemGridSize, {}))
       IN  mem' = Collect([r.m EXCEPT !.held[c] = r.addr])
    /\ UNCHANGED <<ctlVars, secret, cl, sp, gen, gs>>

\* the caller changes the state it holds: Reveal
MemReveal(c) ==
    /\ mem.held[c] # 0
    /\ LET a == mem.held[c]
           g == Reveal(Deep(mem, a), MemRevealCell[1], MemRevealCell[2]).g
       IN  mem' = [mem EXCEPT !.arrs[mem.objs[a].rv] = Array(g.Revealed),
                              !.objs[a].Clicks = g.Clicks]
    /\ UNCHANGED <<ctlVars, secret, cl, sp, gen, gs>>

\* the caller changes the state it holds: SetMine
MemSetMine(c) ==
    /\ mem.held[c] # 0
    /\ LET a == mem.held[c]
           g == SetMine(Deep(mem, a), MemMineCell[1], MemMineCell[2]).g
       IN  mem' = [mem EXCEPT !.arrs[mem.objs[a].mm] = Array(g.MineMap),
                              !.objs[a].MineCount = g.MineCount]
    /\ UNCHANGED <<ctlVars, secret, cl, sp, gen, gs>>

\* MemoryStore.Save: under the lock, m.state = state.Clone()
MemSave(c) ==
    /\ mem.held[c] # 0
    /\ LET r == Clone(mem, mem.held[c])
       IN  mem' = Collect([r.m EXCEPT !.state = r.addr,
                                      !.reg = Deep(mem, mem.held[c]),
                                      !.out = [op |-> "save", value |-> Absent,
                                               err |-> FALSE]])
    /\ UNCHANGED <<ctlVars, secret, cl, sp, gen, gs>>

\* MemoryStore.Load: under the read lock, nil or m.state.Clone()
MemLoad(c) ==
    /\ LET r == IF mem.state = 0 THEN [m |-> mem, addr |-> 0]
                ELSE Clone([mem EXCEPT !.held[c] = 0], mem.state)
       IN  mem' = Collect([r.m EXCEPT !.held[c] = r.addr,
                                      !.out = [op |-> "load",
                                               value |-> Deep(r.m, r.addr),
                                               err |-> FALSE]])
    /\ UNCHANGED <<ctlVars, secret, cl, sp, gen, gs>>

\* MemoryStore.Delete: under the lock, m.state = nil
MemDelete ==
    /\ mem' = Collect([mem EXCEPT !.state = 0, !.reg = Absent,
                                  !.out = [op |-> "delete", value |-> Absent,
                                           err |-> FALSE]])
    /\ UNCHANGED <<ctlVars, secret, cl, sp, gen, gs>>

\* MemoryStore.Reset: under the lock, m.state = nil
MemReset ==
    /\ mem' = Collect([mem EXCEPT !.state = 0, !.reg = Absent,
                                  !.out = [op |-> "reset", value |-> Absent,
                                           err |-> FALSE]])
    /\ UNCHANGED <<ctlVars, secret, cl, sp, gen, gs>>

\* MemoryStore.Exists: under the read lock, m.state != nil
MemExists ==
    /\ mem' = [mem EXCEPT !.out = [op |-> "exists", value |-> mem.state # 0,
                                   err |-> FALSE]]
    /\ UNCHANGED <<ctlVars, secret, cl, sp, gen, gs>>

InitMem ==
    /\ mem = MemInit
    /\ secret = NoSecret
    /\ cl = [c \in Callers |-> NoCall]
    /\ sp = Unused
    /\ gen = Unused
    /\ gs = Unused
    /\ store = NoState
    /\ pods = [name \in {} |-> [phase |-> "Running", hint |-> -1]]
    /\ queue = <<>>
    /\ wk = [k \in Workers |-> Idle]
    /\ delivered = {}
    /\ ndist = 0
    /\ last = NoHandler

NextMem ==
    \/ \E c \in MemCallers : MemNew(c)
    \/ \E c \in MemCallers : MemReveal(c)
    \/ \E c \in MemCallers : MemSetMine(c)
    \/ \E c \in MemCallers : MemSave(c)
    \/ \E c \in MemCallers : MemLoad(c)
    \/ MemDelete
    \/ MemReset
    \/ MemExists

SpecMem == InitMem /\ [][NextMem]_vars

\* what a Load of the store would return now
LoadValue == Deep(mem, mem.state)

\* C12: store values are never aliased: when a caller changes an object it
\* holds, be it one it has passed to Save or one a Load has returned, what a
\* later Load returns does not change, and no other caller's object changes.
C12_NoAliasing ==
    [][\A c \in MemCallers :
         (MemReveal(c) \/ MemSetMine(c)) =>
            /\ LoadValue' = LoadValue
            /\ \A o \in MemCallers \ {c} :
                 Deep(mem', mem'.held[o]) = Deep(mem, mem.held[o])]_vars

\* a caller has changed the object it saved, after the Save, and the store
\* still holds the document as it was saved
C12_Witness ==
    /\ mem.state # 0
    /\ \E c \in MemCallers :
         /\ mem.held[c] # 0
         /\ Deep(mem, mem.held[c]).Revealed = {MemRevealCell}
         /\ Deep(mem, mem.held[c]).MineMap = {MemMineCell}
    /\ LoadValue.Revealed = {}
    /\ LoadValue.MineMap = {}
    /\ mem.out.op = "save"

\* C13: after any sequence of Save, Delete and Reset, by any callers, the
\* store is one whole-document register: Load returns absent without error
\* when no Save followed the last Delete or Reset and else a document equal to
\* that of the latest Save; Exists is true exactly when a Load would return a
\* document; Delete returns no error, on an empty store too.
C13_MemoryStoreIsRegister ==
    /\ LoadValue = mem.reg
    /\ mem.out.op = "load" => (mem.out.value = mem.reg /\ ~mem.out.err)
    /\ mem.out.op = "exists" => (mem.out.value = (mem.reg # Absent) /\ ~mem.out.err)
    /\ mem.out.op \in {"delete", "reset"} => (LoadValue = Absent /\ ~mem.out.err)

\* a Load has returned the document of the latest Save, which a caller had
\* changed before it saved it and after
C13_Witness ==
    /\ mem.out.op = "load"
    /\ mem.out.value # Absent
    /\ mem.out.value.Revealed = {MemRevealCell}
    /\ mem.out.value = mem.reg
    /\ \E c \in MemCallers :
         mem.held[c] # 0 /\ Deep(mem, mem.held[c]).MineMap = {MemMineCell}

----------------------------------------------------------------------------
(* pkg/grid: GridSpawner *)

DefaultRetryAttempts == 3

\* the RetryAttempts of the configurations given to NewGridSpawner
RetryConfigs == {0, 1, 2}
\* the sizes of the grids spawned
SpawnSizes == {1, 2}
\* most SpawnGrid calls in one run
MaxSpawnCalls == 2

\* NewGridSpawner: a RetryAttempts that is not positive becomes the default
NewGridSpawner(retryAttempts) ==
    [retryAttempts |-> IF retryAttempts <= 0 THEN DefaultRetryAttempts
                       ELSE retryAttempts]

LabelAppPodsweeper == "podsweeper"

\* buildCellPod: pod-x-y in the spawner's namespace with the app label
buildCellPod(coord) ==
    [name |-> PodName(coord), ns |-> Namespace, app |-> LabelAppPodsweeper]

\* pods that are not the spawner's: one without the app label in the game's
\* namespace, one with the app label in another namespace
UntaggedPod ==
    [name |-> [x |-> 0, y |-> 0, kind |-> "other"], ns |-> Namespace, app |-> "other"]
OutsidePod ==
    [name |-> PodName(<<0, 0>>), ns |-> OtherNamespace, app |-> LabelAppPodsweeper]
\* a hint pod the controller has made
TaggedHintPod ==
    [name |-> HintPodName(<<0, 0>>), ns |-> Namespace, app |-> LabelAppPodsweeper]

\* the pods with the app label that the game's namespace may hold
TaggedPods(n) == {buildCellPod(c) : c \in Coords(n)} \cup {TaggedHintPod}

AtMostOne(S) == {{}} \cup {{e} : e \in S}

\* the coordinates in the order of the loops x, y = 0..size-1
AllCoords(n) == [i \in 1..(n * n) |-> <<(i - 1) \div n, (i - 1) % n>>]

\* client.Create: an error of the call, AlreadyExists, or the pod is created
Create(cluster, pod, failing) ==
    IF failing THEN [cluster |-> cluster, ans |-> "error"]
    ELSE IF \E p \in cluster : p.ns = pod.ns /\ p.name = pod.name
    THEN [cluster |-> cluster, ans |-> "exists"]
    ELSE [cluster |-> cluster \cup {pod}, ans |-> "ok"]

\* an errors.IsAlreadyExists that finds no error to be AlreadyExists
NeverAlreadyExists(ans) == FALSE

\* errors.IsAlreadyExists
IsAlreadyExists(ans) == ans = "exists"

\* a retry loop that goes round once more
retryLoopOnceMore(attempt, retryAttempts) == attempt <= retryAttempts

\* the condition of the retry loop: attempt < s.retryAttempts
retryLoop(attempt, retryAttempts) == attempt < retryAttempts

\* a wait between attempts that sleeps the delay out
selectSleep(cancelled) == "timer"

\* the select between ctx.Done() and time.After(s.retryDelay): the delay is
\* positive, so a context that is or gets cancelled is the case that is ready
select(cancelled) == IF cancelled THEN "done" ELSE "timer"

\* a List that selects by namespace only
ListNamespace(cluster) == {p \in cluster : p.ns = Namespace}

\* client.List in the namespace with the label app.kubernetes.io/name
List(cluster) ==
    {p \in cluster : p.ns = Namespace /\ p.app = LabelAppPodsweeper}

NoResult ==
    [TotalPods |-> 0, CreatedPods |-> 0, FailedPods |-> 0, FailedCoords |-> <<>>]

\* a SpawnGrid that gives up at the first coordinate that fails
concludeAbort(s, err) ==
    LET coord == AllCoords(s.size)[s.idx]
        r     == IF err = "none"
                 THEN [s.result EXCEPT !.CreatedPods = @ + 1]
                 ELSE [s.result EXCEPT !.FailedPods = @ + 1,
                                       !.FailedCoords = Append(@, coord)]
        atEnd == s.idx = s.size * s.size \/ err # "none"
    IN  [s EXCEPT !.result = r,
                  !.lastErr = err,
                  !.failed = IF err = "none" THEN @ ELSE @ \cup {coord},
                  !.idx = IF atEnd THEN 0 ELSE @ + 1,
                  !.attempt = 0,
                  !.pc = IF atEnd THEN "idle" ELSE "create",
                  !.op = IF atEnd THEN "spawn" ELSE @,
                  !.err = IF atEnd THEN r.FailedPods > 0 ELSE @]

\* createPodWithRetry has returned err for the coordinate at idx: SpawnGrid
\* counts it, goes on to the next coordinate and returns after the last one
conclude(s, err) ==
    LET coord == AllCoords(s.size)[s.idx]
        r     == IF err = "none"
                 THEN [s.result EXCEPT !.CreatedPods = @ + 1]
                 ELSE [s.result EXCEPT !.FailedPods = @ + 1,
                                       !.FailedCoords = Append(@, coord)]
        atEnd == s.idx = s.size * s.size
    IN  [s EXCEPT !.result = r,
                  !.lastErr = err,
                  !.failed = IF err = "none" THEN @ ELSE @ \cup {coord},
                  !.idx = IF atEnd THEN 0 ELSE @ + 1,
                  !.attempt = 0,
                  !.pc = IF atEnd THEN "idle" ELSE "create",
                  !.op = IF atEnd THEN "spawn" ELSE @,
                  !.err = IF atEnd THEN r.FailedPods > 0 ELSE @]

\* SpawnGrid is called with a context that is not cancelled and a state of
\* the given size
SpawnGrid(size) ==
    /\ sp.pc = "idle"
    /\ sp.calls < MaxSpawnCalls
    /\ sp' = [sp EXCEPT !.pc = "create", !.size = size, !.idx = 1, !.attempt = 0,
                        !.cancelled = FALSE,
                        !.result = [NoResult EXCEPT !.TotalPods = size * size],
                        !.err = FALSE, !.lastErr = "none", !.op = "none",
                        !.calls = @ + 1,
                        !.start = sp.cluster, !.attempted = {}, !.failed = {},
                        !.tries = 0, !.errs = 0, !.faulted = FALSE]
    /\ UNCHANGED <<ctlVars, secret, cl, mem, gen, gs>>

\* createPodWithRetry, one round of the loop from the Create on: the pod is
\* created or exists already and the coordinate is done, or the call fails
\* and the loop waits, or gives the coordinate up after the last attempt
CreateAttempt(failing) ==
    /\ sp.pc = "create"
    /\ LET coord == AllCoords(sp.size)[sp.idx]
           r     == Create(sp.cluster, buildCellPod(coord), failing)
           first == sp.attempt = 0
           s     == [sp EXCEPT !.cluster = r.cluster,
                               !.attempted = @ \cup {coord},
                               !.tries = IF first THEN 1 ELSE @ + 1,
                               !.errs = (IF first THEN 0 ELSE @)
                                        + (IF r.ans = "error" THEN 1 ELSE 0),
                               !.faulted = @ \/ r.ans = "error"]
       IN  IF r.ans = "ok" \/ IsAlreadyExists(r.ans)
           THEN sp' = conclude(s, "none")
           ELSE IF retryLoop(sp.attempt + 1, sp.cfg.retryAttempts)
           THEN sp' = [s EXCEPT !.attempt = @ + 1, !.pc = "wait"]
           ELSE sp' = conclude(s, "attempts")
    /\ UNCHANGED <<ctlVars, secret, cl, mem, gen, gs>>

\* createPodWithRetry waits between two attempts: the delay passes, or the
\* context is done and the coordinate is given up with ctx.Err()
RetryWait ==
    /\ sp.pc = "wait"
    /\ IF select(sp.cancelled) = "done"
       THEN sp' = conclude(sp, "ctx")
       ELSE sp' = [sp EXCEPT !.pc = "create"]
    /\ UNCHANGED <<ctlVars, secret, cl, mem, gen, gs>>

\* the caller cancels the context of the SpawnGrid call that is running
Cancel ==
    /\ sp.pc # "idle"
    /\ ~sp.cancelled
    /\ sp' = [sp EXCEPT !.cancelled = TRUE]
    /\ UNCHANGED <<ctlVars, secret, cl, mem, gen, gs>>

\* CleanupGrid: List, which may fail, then a Delete for every pod listed; a
\* pod that is gone by then is NotFound and passed over, a Delete that fails
\* otherwise leaves the pod and is the error returned
CleanupGrid(listFails, gone, failing) ==
    /\ sp.pc = "idle"
    /\ sp.op # "cleanup"
    /\ LET listed == IF listFails THEN {} ELSE List(sp.cluster)
       IN  /\ gone \subseteq listed
           /\ failing \subseteq listed
           /\ sp' = [sp EXCEPT !.cluster = (@ \ gone) \ (listed \ failing),
                               !.op = "cleanup",
                               !.err = listFails \/ (failing \ gone) # {},
                               !.start = sp.cluster,
                               !.faulted = listFails]
    /\ UNCHANGED <<ctlVars, secret, cl, mem, gen, gs>>

\* the player deletes a cell pod while no call of the spawner is running
SpawnedPodDeleted(pod) ==
    /\ sp.pc = "idle"
    /\ sp.op = "spawn"
    /\ pod \in List(sp.cluster)
    /\ sp' = [sp EXCEPT !.cluster = @ \ {pod}, !.op = "none"]
    /\ UNCHANGED <<ctlVars, secret, cl, mem, gen, gs>>

InitSpawn ==
    /\ \E ra \in RetryConfigs, hint \in SUBSET {TaggedHintPod} :
         sp = [cluster |-> {UntaggedPod, OutsidePod} \cup hint,
               cfg |-> NewGridSpawner(ra),
               size |-> 0, pc |-> "idle", idx |-> 0, attempt |-> 0,
               cancelled |-> FALSE, result |-> NoResult, err |-> FALSE,
               lastErr |-> "none", op |-> "none", calls |-> 0,
               start |-> {}, attempted |-> {}, failed |-> {},
               tries |-> 0, errs |-> 0, faulted |-> FALSE]
    /\ mem = Unused
    /\ gen = Unused
    /\ gs = Unused
    /\ secret = NoSecret
    /\ cl = [c \in Callers |-> NoCall]
    /\ store = NoState
    /\ pods = [name \in {} |-> [phase |-> "Running", hint |-> -1]]
    /\ queue = <<>>
    /\ wk = [k \in Workers |-> Idle]
    /\ delivered = {}
    /\ ndist = 0
    /\ last = NoHandler

NextSpawn ==
    \/ \E size \in SpawnSizes : SpawnGrid(size)
    \/ \E failing \in BOOLEAN : CreateAttempt(failing)
    \/ RetryWait
    \/ Cancel
    \/ \E listFails \in BOOLEAN, gone, failing \in AtMostOne(TaggedPods(Max(SpawnSizes))) :
         CleanupGrid(listFails, gone, failing)
    \/ \E pod \in TaggedPods(Max(SpawnSizes)) : SpawnedPodDeleted(pod)

SpecSpawn == InitSpawn /\ [][NextSpawn]_vars

----------------------------------------------------------------------------
(* pkg/grid: Config and Generator *)

\* a MineDensity: not a number, or the fraction num/den. The fractions used
\* have a power of two as den, so that float64(totalCells) * MineDensity is
\* exact and int() of it is the integer part of totalCells * num / den
Fraction(num, den) == [nan |-> FALSE, num |-> num, den |-> den]
NaN == [nan |-> TRUE, num |-> 0, den |-> 1]

MinMineDensity == Fraction(5, 100)
MaxMineDensity == Fraction(50, 100)

\* the float comparison a < b, false when either is not a number
Less(a, b) == ~a.nan /\ ~b.nan /\ a.num * b.den < b.num * a.den

\* what int() makes of a float that is not a number is left to the build:
\* the least int, zero or the greatest int
NaNToInt == {-2147483647, 0, 2147483647}

ConfigSizes == {0, 1, 2, 3, 101}
ConfigDensities == {Fraction(0, 16), Fraction(1, 4), Fraction(1, 2), Fraction(9, 16), NaN}
ConfigMinMax == {<<0, 0>>, <<1, 0>>, <<10, 0>>, <<1, 2>>, <<3, 2>>, <<10, 20>>, <<-1, 0>>, <<0, -1>>}

\* Config.Seed: 0 asks for a random seed
ConfigSeeds == {0, 1}

Configs ==
    {[Size |-> n, Seed |-> sd, MineDensity |-> d,
      MinMineCount |-> mm[1], MaxMineCount |-> mm[2]] :
        n \in ConfigSizes, sd \in ConfigSeeds, d \in ConfigDensities,
        mm \in ConfigMinMax}

\* Config.Validate: TRUE when it returns no error
Validate(c) ==
    IF c.Size < 1 THEN FALSE
    ELSE IF c.Size > 100 THEN FALSE
    ELSE IF Less(c.MineDensity, MinMineDensity) THEN FALSE
    ELSE IF Less(MaxMineDensity, c.MineDensity) THEN FALSE
    ELSE IF c.MinMineCount < 0 THEN FALSE
    ELSE IF c.MaxMineCount < 0 THEN FALSE
    ELSE IF c.MaxMineCount > 0 /\ c.MinMineCount > c.MaxMineCount THEN FALSE
    ELSE TRUE

\* a CalculateMineCount without the ceiling of totalCells - 1
CalculateMineCountUncapped(c, nanInt) ==
    LET totalCells == c.Size * c.Size
        m0 == IF c.MineDensity.nan THEN nanInt
              ELSE (totalCells * c.MineDensity.num) \div c.MineDensity.den
        m1 == IF m0 < c.MinMineCount THEN c.MinMineCount ELSE m0
    IN  IF c.MaxMineCount > 0 /\ m1 > c.MaxMineCount THEN c.MaxMineCount ELSE m1

\* Config.CalculateMineCount
CalculateMineCount(c, nanInt) ==
    LET totalCells == c.Size * c.Size
        m0 == IF c.MineDensity.nan THEN nanInt
              ELSE (totalCells * c.MineDensity.num) \div c.MineDensity.den
        m1 == IF m0 < c.MinMineCount THEN c.MinMineCount ELSE m0
        m2 == IF c.MaxMineCount > 0 /\ m1 > c.MaxMineCount THEN c.MaxMineCount ELSE m1
        maxPossible == totalCells - 1
    IN  IF m2 > maxPossible THEN maxPossible ELSE m2

\* math/rand: the states of a generator of pseudo-random numbers, the state
\* NewSource makes of a seed, and Intn, which moves the state on and takes
\* the number from it
RngStates == 0..3
NewSource(seed) == seed % Cardinality(RngStates)
Intn(rng, n) ==
    LET next == (5 * rng + 3) % Cardinality(RngStates)
    IN  [rng |-> next, n |-> next % n]

Swap(positions, i, j) ==
    [positions EXCEPT ![i] = positions[j], ![j] = positions[i]]

\* the Fisher-Yates loop for i = len(positions)-1 down to 1, indices from 1
RECURSIVE shuffle(_, _, _)
shuffle(positions, i, rng) ==
    IF i <= 1 THEN [positions |-> positions, rng |-> rng]
    ELSE LET r == Intn(rng, i)
         IN  shuffle(Swap(positions, i, r.n + 1), i - 1, r.rng)

\* the loop that sets a mine at the first mineCount positions
RECURSIVE setMines(_, _, _, _)
setMines(state, positions, i, mineCount) ==
    IF i > mineCount THEN state
    ELSE setMines(SetMine(state, positions[i] \div state.Size,
                          positions[i] % state.Size).g,
                  positions, i + 1, mineCount)

\* placeMinesWithRNG: the state with the mines placed, and the rng after it
placeMinesWithRNG(c, nanInt, state, rng) ==
    LET mineCount  == CalculateMineCount(c, nanInt)
        totalCells == c.Size * c.Size
        sh == shuffle([i \in 1..totalCells |-> i - 1], totalCells, rng)
    IN  [state |-> setMines(state, sh.positions, 1, mineCount), rng |-> sh.rng]

Generators == {1, 2}
Seeds == {1, 2}

NoLayout == [absent |-> TRUE]

\* a GenerateWithSeed that draws from the generator's own rng
GenerateWithOwnRNG(g, seed) ==
    placeMinesWithRNG(gen.config, gen.nanInt,
                      NewGameState(gen.config.Size, {}), gen.rng[g])

\* GenerateWithSeed: a new rng from the seed, a new state, the mines placed;
\* rng is the generator's own rng afterwards
GenerateWithSeed(g, seed) ==
    [state |-> placeMinesWithRNG(gen.config, gen.nanInt,
                                 NewGameState(gen.config.Size, {}),
                                 NewSource(seed)).state,
     rng |-> gen.rng[g]]

\* a call of GenerateWithSeed by generator g; seen keeps, for a seed, the
\* state of the first call with it, the generator that made it and whether a
\* Generate call has come after it
CallGenerateWithSeed(g, seed) ==
    /\ gen.ok
    /\ LET r == GenerateWithSeed(g, seed)
       IN  gen' = [gen EXCEPT
                     !.rng[g] = r.rng,
                     !.seen[seed] = IF @ = NoLayout
                                    THEN [state |-> r.state, g |-> g, between |-> FALSE]
                                    ELSE @,
                     !.recorded[seed] = IF @ = NoLayout THEN r.state ELSE @,
                     !.out = [op |-> "seed", g |-> g, seed |-> seed, state |-> r.state]]
    /\ UNCHANGED <<ctlVars, secret, cl, mem, sp, gs>>

\* Generate: a new state that records the seed of the configuration, the
\* mines placed with the generator's own rng; recorded keeps, for a seed, the
\* first state that any call has returned with that seed in it
Generate(g) ==
    /\ gen.ok
    /\ LET r == placeMinesWithRNG(gen.config, gen.nanInt,
                                  NewGameState(gen.config.Size, {}), gen.rng[g])
       IN  gen' = [gen EXCEPT
                     !.rng[g] = r.rng,
                     !.seen = [s \in Seeds |->
                                 IF @[s] = NoLayout THEN @[s]
                                 ELSE [@[s] EXCEPT !.between = TRUE]],
                     !.recorded = [s \in Seeds |->
                                     IF s = gen.config.Seed /\ @[s] = NoLayout
                                     THEN r.state ELSE @[s]],
                     !.out = [op |-> "generate", g |-> g, seed |-> gen.config.Seed,
                              state |-> r.state]]
    /\ UNCHANGED <<ctlVars, secret, cl, mem, sp, gs>>

\* NewGenerator for two generators with one configuration: an error when
\* Validate rejects it, else each generator gets an rng of its own, from the
\* seed of its configuration or from a random seed
InitGen ==
    /\ \E c \in Configs, r \in [Generators -> RngStates], nanInt \in NaNToInt :
         /\ ~c.MineDensity.nan => nanInt = 0
         /\ ~Validate(c) => r = [g \in Generators |-> 0]
         /\ (Validate(c) /\ c.Seed # 0) => r = [g \in Generators |-> NewSource(c.Seed)]
         /\ gen = [config |-> c, ok |-> Validate(c), nanInt |-> nanInt, rng |-> r,
                   seen |-> [s \in Seeds |-> NoLayout],
                   recorded |-> [s \in Seeds |-> NoLayout],
                   out |-> [op |-> "none", g |-> 0, seed |-> 0, state |-> NoLayout]]
    /\ mem = Unused
    /\ sp = Unused
    /\ gs = Unused
    /\ secret = NoSecret
    /\ cl = [c \in Callers |-> NoCall]
    /\ store = NoState
    /\ pods = [name \in {} |-> [phase |-> "Running", hint |-> -1]]
    /\ queue = <<>>
    /\ wk = [k \in Workers |-> Idle]
    /\ delivered = {}
    /\ ndist = 0
    /\ last = NoHandler

NextGen ==
    \/ \E g \in Generators, seed \in Seeds : CallGenerateWithSeed(g, seed)
    \/ \E g \in Generators : Generate(g)

SpecGen == InitGen /\ [][NextGen]_vars

----------------------------------------------------------------------------
(* What the properties below speak of *)

HasGame == store # NoState

\* the coordinates of the persisted grid
Grid == IF HasGame THEN Coords(store.Size) ELSE {}

\* the pod exists and is not being deleted
IsRunning(p, name) == name \in DOMAIN p /\ p[name].phase = "Running"

HintPods(p) == {name \in DOMAIN p : IsHintPodName(name)}

CellPods(p) == {name \in DOMAIN p : IsPodName(name)}

\* the deletion event of the pod waits in the queue or is with a worker
IsPending(name) ==
    \/ Request(name) \in Range(queue)
    \/ \E k \in Workers : wk[k].pc = "handling" /\ wk[k].req = Request(name)

\* no event waits and no worker is busy
Quiescent == queue = <<>> /\ AllIdle

\* the deletion event of the player's pod c has been processed to its end
Processed(c) ==
    c \in delivered /\ PodName(c) \notin DOMAIN pods /\ ~IsPending(PodName(c))

----------------------------------------------------------------------------
(* The lifecycle of the persisted status *)

\* C1: the persisted status changes only from Playing to Won or from Playing
\* to Lost, and once it is Won or Lost no step changes the persisted document
\* (status, revealed set, hint cells, clicks) any more.
C1_TerminalStatusIsFinal ==
    [][HasGame =>
         /\ store.Status # StatusPlaying => store' = store
         /\ store' # store =>
              /\ store.Status = StatusPlaying
              /\ store'.Status \in {StatusPlaying, StatusWon, StatusLost}]_vars

\* a game has ended, and a deletion event that came after it has been
\* processed: its pod is gone, no event waits, its coordinate is unrevealed
C1_Witness ==
    /\ HasGame
    /\ store.Status \in {StatusWon, StatusLost}
    /\ Quiescent
    /\ \E c \in Grid : PodName(c) \notin DOMAIN pods /\ c \notin store.Revealed

C4_FailedEventEventuallyReveals ==
    \A c \in Coords(LiveGridSize) :
      (/\ HasGame
       /\ store.Status = StatusPlaying
       /\ c \in Grid
       /\ c \notin store.Revealed
       /\ last.err /\ last.coords = c
       /\ PodName(c) \notin DOMAIN pods
       /\ IsPending(PodName(c)))
        ~> (HasGame /\ (c \in store.Revealed \/ store.Status # StatusPlaying))

----------------------------------------------------------------------------
(* The handlers *)

\* what C5 asks of a mine hit that HandleMineHit has handled without error
MineHitHandled ==
    /\ store.Status = StatusLost
    /\ last.coords \in store.Revealed
    /\ ExplosionName \in DOMAIN pods

\* no cell pod and no hint pod remains
NoGamePodRemains ==
    \A name \in CellPods(pods) \cup HintPods(pods) : ~IsRunning(pods, name)

C6_VictoryOnLastSafeCell ==
    (last.handler \in {"hint", "empty"} /\ ~last.err /\ CheckVictory(store)) =>
        /\ store.Status = StatusWon
        /\ last.saves = 1
        /\ IsRunning(pods, VictoryName)

\* the last safe cell was revealed by a hint reveal, after an earlier reveal
C6_Witness ==
    /\ last.handler = "hint" /\ ~last.err
    /\ CheckVictory(store)
    /\ store.Status = StatusWon
    /\ Len(store.HintCells) >= 2
    /\ IsRunning(pods, VictoryName)

\* C7: a deletion event for an unrevealed safe coordinate c of the grid with
\* k > 0 adjacent mines, handled without error, reveals c and no other
\* coordinate, appends c to the hint cells, and creates one hint pod,
\* hint-x-y of c with the hint value k; no cell pod changes.
C7_HintCellRevealsOne ==
    [][\A k \in Workers :
         (/\ Handle(k)
          /\ Classify(wk[k].state, wk[k].coords) = "hint"
          /\ wk[k].coords \in Grid
          /\ ~last'.err) =>
            LET c == wk[k].coords
                h == HintPodName(c)
            IN  /\ c \notin store.Revealed
                /\ store'.Revealed = store.Revealed \cup {c}
                /\ store'.HintCells = Append(store.HintCells, c)
                /\ h \notin DOMAIN pods
                /\ HintPods(pods') = HintPods(pods) \cup {h}
                /\ pods'[h].hint = AdjacentMines(store, c[1], c[2])
                /\ pods'[h].hint > 0
                /\ CellPods(pods') = CellPods(pods)
                /\ \A n \in DOMAIN pods : pods'[n] = pods[n]]_vars

\* a second hint cell has been revealed: its hint pod carries its number and
\* it is the last of the hint cells
C7_Witness ==
    /\ last.handler = "hint" /\ ~last.err
    /\ Len(store.HintCells) = 2
    /\ store.HintCells[2] = last.coords
    /\ HintPodName(last.coords) \in DOMAIN pods
    /\ pods[HintPodName(last.coords)].hint =
          AdjacentMines(store, last.coords[1], last.coords[2])
    /\ Cardinality(store.Revealed) = 2

\* C8: after HandleEmptyCell has returned without error, every coordinate of
\* the connected region of empty cells and of its boundary is revealed in the
\* persisted document; an empty cell has no cell pod and no hint pod; a
\* boundary cell has no cell pod and has a hint pod with its number.
C8_FloodFillPostcondition ==
    [][\A k \in Workers :
         (/\ Handle(k)
          /\ Classify(wk[k].state, wk[k].coords) = "empty"
          /\ wk[k].coords \in Grid
          /\ ~last'.err) =>
            LET bfs == bfsPropagation(wk[k].state, wk[k].coords)
            IN  /\ \A c \in Range(bfs.empty) :
                     /\ c \in store'.Revealed
                     /\ ~IsRunning(pods', PodName(c))
                     /\ HintPodName(c) \notin DOMAIN pods'
                /\ \A c \in Range(bfs.boundary) :
                     /\ c \in store'.Revealed
                     /\ ~IsRunning(pods', PodName(c))
                     /\ HintPodName(c) \in DOMAIN pods'
                     /\ pods'[HintPodName(c)].hint =
                           AdjacentMines(wk[k].state, c[1], c[2])]_vars

----------------------------------------------------------------------------
(* Reconcile *)

\* C9: a Reconcile call for a pod that still exists, running or terminating,
\* does nothing: it saves nothing, changes no pod and calls no handler.
C9_ExistingPodIsNoOp ==
    [][\A k \in Workers :
         (/\ wk[k].pc = "idle"
          /\ queue # <<>>
          /\ Head(queue).name \in DOMAIN pods
          /\ Begin(k)) =>
            /\ store' = store
            /\ pods' = pods
            /\ wk'[k].pc = "idle"
            /\ last' = last]_vars

\* the player has deleted a pod, the pod is still terminating, and the
\* Reconcile call for it has been made: nothing waits, nothing is revealed
C9_Witness ==
    /\ HasGame
    /\ Quiescent
    /\ store.Revealed = {}
    /\ \E c \in Grid :
         /\ PodName(c) \in DOMAIN pods
         /\ pods[PodName(c)].phase = "Terminating"

\* C10: revealing a revealed coordinate again returns false and changes
\* nothing, and a deletion event for a revealed coordinate of a game being
\* played is a no-op: no Save, no pod change, no handler, no error.
C10_RevealIsIdempotent ==
    [][/\ HasGame =>
            \A c \in store.Revealed :
               LET r == Reveal(store, c[1], c[2])
               IN  ~r.ok /\ r.g = store
       /\ \A k \in Workers :
            (/\ wk[k].pc = "idle"
             /\ queue # <<>>
             /\ HasGame
             /\ store.Status = StatusPlaying
             /\ Head(queue).name \notin DOMAIN pods
             /\ IsPodName(Head(queue).name)
             /\ IsRevealed(store, Head(queue).name.x, Head(queue).name.y)
             /\ ndist' = ndist
             /\ Begin(k)) =>
                /\ store' = store
                /\ pods' = pods
                /\ wk'[k].pc = "idle"
                /\ queue' = Tail(queue)]_vars

\* a flood fill has revealed several cells of a game that goes on, and the
\* deletion events of the pods it deleted have all been processed
C10_Witness ==
    /\ HasGame
    /\ store.Status = StatusPlaying
    /\ last.handler = "empty" /\ ~last.err /\ last.fault = NoFault
    /\ Cardinality(store.Revealed) >= 3
    /\ Quiescent

\* C11: a Reconcile request of another namespace, or whose name is not a
\* cell pod name pod-<x>-<y> (a hint pod, the victory pod, the explosion pod,
\* a malformed name), or that arrives while no document is persisted, changes
\* neither the store nor any pod, calls no handler and returns no error.
C11_ForeignRequestIsIgnored ==
    [][\A k \in Workers :
         (/\ wk[k].pc = "idle"
          /\ queue # <<>>
          /\ \/ Head(queue).ns # Namespace
             \/ ~IsPodName(Head(queue).name)
             \/ (store = NoState /\ ndist' = ndist)
          /\ Begin(k)) =>
            /\ store' = store
            /\ pods' = pods
            /\ wk'[k].pc = "idle"
            /\ queue' = Tail(queue)
            /\ last' = last]_vars

\* a request that is none of the game's cells has been processed: it was the
\* only disturbance, nothing waits, and every pod and the document are as
\* they were
C11_Witness ==
    /\ HasGame
    /\ ndist = 1
    /\ Quiescent
    /\ last = NoHandler
    /\ store.Revealed = {}
    /\ \A name \in DOMAIN pods : pods[name].phase = "Running"
    /\ CellPods(pods) = {PodName(c) : c \in Grid}

----------------------------------------------------------------------------
(* GridSpawner: SpawnGrid, createPodWithRetry, CleanupGrid *)

\* the cell pods of the grid that the latest SpawnGrid call is for
GridPods == {buildCellPod(c) : c \in Coords(sp.size)}

\* SpawnGrid has returned and nothing has happened since
Spawned == sp.pc = "idle" /\ sp.op = "spawn"

\* createPodWithRetry has just returned for a coordinate
Returned == sp.pc # "wait" /\ sp.attempt = 0 /\ sp.tries > 0

\* C14: SpawnGrid calls Create for every one of the size*size coordinates,
\* also when some of them fail for good; it returns an error exactly when a
\* coordinate has failed; created + failed = total = size*size, and
\* FailedCoords lists the failed coordinates, each once.
C14_SpawnGridIsBestEffort ==
    Spawned =>
        /\ sp.attempted = Coords(sp.size)
        /\ sp.result.TotalPods = sp.size * sp.size
        /\ sp.result.CreatedPods + sp.result.FailedPods = sp.result.TotalPods
        /\ Range(sp.result.FailedCoords) = sp.failed
        /\ Len(sp.result.FailedCoords) = Cardinality(sp.failed)
        /\ sp.result.FailedPods = Cardinality(sp.failed)
        /\ sp.err <=> sp.failed # {}
        /\ \A c \in Coords(sp.size) \ sp.failed : buildCellPod(c) \in sp.cluster

\* the first coordinate of a 2x2 grid has failed for good, the other three
\* have been created after it
C14_Witness ==
    /\ Spawned
    /\ sp.size = 2
    /\ sp.failed = {<<0, 0>>}
    /\ sp.result.CreatedPods = 3
    /\ sp.err
    /\ ~sp.cancelled

\* C15: spawning again is idempotent: AlreadyExists counts as success, so a
\* SpawnGrid call on a grid all of whose pods exist, every Create of which is
\* answered, reports no failure, returns no error and leaves the pods of the
\* cluster as they were.
C15_RespawnIsIdempotent ==
    (Spawned /\ GridPods \subseteq sp.start /\ ~sp.faulted) =>
        /\ sp.result.FailedPods = 0
        /\ sp.result.FailedCoords = <<>>
        /\ sp.result.CreatedPods = sp.size * sp.size
        /\ ~sp.err
        /\ sp.cluster = sp.start

\* the second SpawnGrid call for a 2x2 grid has returned, all four pods were
\* there when it began
C15_Witness ==
    /\ Spawned
    /\ sp.calls = 2
    /\ sp.size = 2
    /\ GridPods \subseteq sp.start
    /\ ~sp.faulted
    /\ sp.result.CreatedPods = 4

\* C16: for a coordinate Create is called at most retryAttempts times, 3 when
\* the configuration gives none; the calls stop at the first that succeeds or
\* is answered AlreadyExists; a coordinate is given up, the context not being
\* cancelled, only after exactly retryAttempts calls have failed.
C16_AtMostRetryAttempts ==
    /\ sp.cfg.retryAttempts >= 1
    /\ sp.tries <= sp.cfg.retryAttempts
    /\ sp.pc = "wait" => (sp.errs = sp.tries /\ sp.tries < sp.cfg.retryAttempts)
    /\ (Returned /\ sp.lastErr = "none") => sp.tries = sp.errs + 1
    /\ (Returned /\ sp.lastErr # "none" /\ ~sp.cancelled) =>
           (sp.errs = sp.cfg.retryAttempts /\ sp.tries = sp.errs)
    /\ (Returned /\ sp.lastErr = "attempts") => sp.errs = sp.cfg.retryAttempts

\* a spawner made without RetryAttempts has given a coordinate up after three
\* failed calls, the context not cancelled
C16_Witness ==
    /\ Returned
    /\ sp.lastErr = "attempts"
    /\ ~sp.cancelled
    /\ sp.cfg.retryAttempts = DefaultRetryAttempts
    /\ sp.errs = DefaultRetryAttempts
    /\ sp.failed # {}

\* C17: when the context is cancelled while createPodWithRetry waits between
\* two attempts, the wait ends with the context's error: the next step of
\* the spawner gives the coordinate up with ctx.Err() and calls Create for it
\* no more.
C17_WaitIsCancellable ==
    [][(sp.pc = "wait" /\ sp.cancelled /\ sp' # sp) =>
          /\ sp'.lastErr = "ctx"
          /\ sp'.tries = sp.tries
          /\ sp'.attempted = sp.attempted
          /\ sp'.cluster = sp.cluster
          /\ AllCoords(sp.size)[sp.idx] \in sp'.failed
          /\ \/ sp'.pc = "idle"
             \/ sp'.pc = "create" /\ sp'.idx = sp.idx + 1]_vars

\* a coordinate has been given up with ctx.Err() after one of three attempts
\* and SpawnGrid has gone on to the next coordinate
C17_Witness ==
    /\ sp.pc = "create"
    /\ Returned
    /\ sp.lastErr = "ctx"
    /\ sp.cancelled
    /\ sp.tries = 1
    /\ sp.cfg.retryAttempts = DefaultRetryAttempts

\* the pods among S that are the game's: in its namespace, with its app label
Tagged(S) == {p \in S : p.ns = Namespace /\ p.app = "podsweeper"}

\* CleanupGrid has returned and nothing has happened since
Cleaned == sp.pc = "idle" /\ sp.op = "cleanup"

\* C18: CleanupGrid deletes the pods of the namespace that carry the game's
\* app label, all of them when it returns no error; it leaves every other pod
\* as it is; with no such pod there, and the List answered, it returns no
\* error and changes nothing.
C18_CleanupGridRemovesTagged ==
    Cleaned =>
        /\ sp.cluster \subseteq sp.start
        /\ sp.start \ sp.cluster \subseteq Tagged(sp.start)
        /\ ~sp.err => Tagged(sp.cluster) = {}
        /\ (Tagged(sp.start) = {} /\ ~sp.faulted) =>
               (~sp.err /\ sp.cluster = sp.start)

\* CleanupGrid has deleted the four cell pods and the hint pod and has left
\* the pod without the label and the pod of the other namespace
C18_Witness ==
    /\ Cleaned
    /\ ~sp.err
    /\ Cardinality(Tagged(sp.start)) = 5
    /\ sp.cluster = {UntaggedPod, OutsidePod}

----------------------------------------------------------------------------
(* Generator: GenerateWithSeed and CalculateMineCount *)

\* C19: for every seed, two GenerateWithSeed calls with it, by generators of
\* equivalent configurations, give the same layout, the same mine map and the
\* same mine count, whatever generation calls came before or between them.
C19_GenerateWithSeedIsReproducible ==
    gen.out.op = "seed" =>
        /\ gen.out.state.MineMap = gen.seen[gen.out.seed].state.MineMap
        /\ gen.out.state.MineCount = gen.seen[gen.out.seed].state.MineCount
        /\ gen.out.state = gen.seen[gen.out.seed].state

\* the other generator has called GenerateWithSeed with a seed used before,
\* a Generate call has come between the two, and the layout has a mine and a
\* safe cell
C19_Witness ==
    /\ gen.out.op = "seed"
    /\ gen.out.g # gen.seen[gen.out.seed].g
    /\ gen.seen[gen.out.seed].between
    /\ gen.out.state.MineCount >= 2
    /\ gen.out.state.MineCount < Cardinality(Coords(gen.config.Size)) - 1

MinOfTwo(a, b) == IF a < b THEN a ELSE b

\* C20: for every configuration that Validate accepts, CalculateMineCount is
\* at least min(MinMineCount, size^2 - 1) and at most min(MaxMineCount,
\* size^2 - 1), or size^2 - 1 when there is no MaxMineCount; so it is less
\* than size^2, and every grid generated has a cell without a mine.
C20_MineCountInRange ==
    gen.ok =>
        LET c     == gen.config
            total == c.Size * c.Size
            count == CalculateMineCount(c, gen.nanInt)
            upper == IF c.MaxMineCount > 0 THEN c.MaxMineCount ELSE total - 1
        IN  /\ count >= MinOfTwo(c.MinMineCount, total - 1)
            /\ count <= MinOfTwo(upper, total - 1)
            /\ count < total
            /\ gen.out.op # "none" =>
                 /\ gen.out.state.MineCount = count
                 /\ Cardinality(gen.out.state.MineMap) = count
                 /\ gen.out.state.MineMap \subseteq Coords(c.Size)
                 /\ Coords(c.Size) \ gen.out.state.MineMap # {}

\* a grid of size 3 has been generated from a configuration whose
\* MinMineCount is more than its cells: eight mines, one safe cell
C20_Witness ==
    /\ gen.ok
    /\ gen.config.Size = 3
    /\ gen.config.MinMineCount > 9
    /\ gen.out.op = "generate"
    /\ gen.out.state.MineCount = 8
    /\ Cardinality(gen.out.state.MineMap) = 8

\* the density is a number of the interval [0.05, 0.50]
DensityInRange(d) ==
    /\ ~d.nan
    /\ 5 * d.den <= 100 * d.num
    /\ 100 * d.num <= 50 * d.den

\* C21: Validate rejects a configuration exactly when its size is outside
\* [1, 100], its density is outside [0.05, 0.50], its MinMineCount is
\* negative, or its MinMineCount exceeds a MaxMineCount that is not zero; a
\* rejected configuration gives no generator, and no grid is ever generated
\* from it.
C21_ValidateRejectsExactly ==
    LET c == gen.config
        rejected == \/ c.Size < 1
                    \/ c.Size > 100
                    \/ ~DensityInRange(c.MineDensity)
                    \/ c.MinMineCount < 0
                    \/ (c.MaxMineCount # 0 /\ c.MinMineCount > c.MaxMineCount)
    IN  /\ gen.ok <=> ~rejected
        /\ ~gen.ok => /\ gen.out.op = "none"
                      /\ \A s \in Seeds : gen.seen[s] = NoLayout

----------------------------------------------------------------------------
(* pkg/game: a GameState under the calls of its methods *)

\* the sizes of the grids the methods are called on
MethodGridSizes == {1, 2, 3}

\* Reveal is called while fewer cells than this are revealed
MaxRevealedCells == 1

\* the coordinates a call is made with: those of the grid and some outside
CallCoords(n) == Coords(n) \cup {<<-1, 0>>, <<0, n>>, <<n, n>>}

\* what is kept of the last call: the method, the boolean it returned,
\* whether it changed the state; for bfsPropagation the start and the two
\* lists it returned; for a generated grid what CalculateMineCount returned
CallResult(op, ok, changed) ==
    [op |-> op, ok |-> ok, changed |-> changed, count |-> 0,
     start |-> <<0, 0>>, empty |-> <<>>, boundary |-> <<>>]

BfsResult(start, r) ==
    [op |-> "bfsPropagation", ok |-> TRUE, changed |-> FALSE, count |-> 0,
     start |-> start, empty |-> r.empty, boundary |-> r.boundary]

GenerateResult(count) ==
    [op |-> "Generate", ok |-> TRUE, changed |-> TRUE, count |-> count,
     start |-> <<0, 0>>, empty |-> <<>>, boundary |-> <<>>]

CallSetMine(c) ==
    /\ c \in CallCoords(gs.g.Size)
    /\ LET r == SetMine(gs.g, c[1], c[2])
       IN  gs' = [g |-> r.g, out |-> CallResult("SetMine", r.ok, r.g # gs.g)]
    /\ UNCHANGED <<ctlVars, secret, cl, mem, sp, gen>>

CallReveal(c) ==
    /\ c \in CallCoords(gs.g.Size)
    /\ Cardinality(gs.g.Revealed) < MaxRevealedCells
    /\ LET r == Reveal(gs.g, c[1], c[2])
       IN  gs' = [g |-> r.g, out |-> CallResult("Reveal", r.ok, r.g # gs.g)]
    /\ UNCHANGED <<ctlVars, secret, cl, mem, sp, gen>>

CallBfsPropagation(start) ==
    /\ start \in Coords(gs.g.Size)
    /\ gs' = [gs EXCEPT !.out = BfsResult(start, bfsPropagation(gs.g, start))]
    /\ UNCHANGED <<ctlVars, secret, cl, mem, sp, gen>>

CallCheckVictory ==
    /\ gs' = [gs EXCEPT !.out = CallResult("CheckVictory", CheckVictory(gs.g), FALSE)]
    /\ UNCHANGED <<ctlVars, secret, cl, mem, sp, gen>>

\* the grid at hand is what NewGameState returns, without mines and with
\* nothing revealed, or what the Generate of a generator returns
InitGrid ==
    /\ \/ \E n \in MethodGridSizes :
            gs = [g |-> NewGameState(n, {}), out |-> CallResult("none", FALSE, FALSE)]
       \/ \E c \in Configs, rng \in RngStates, nanInt \in NaNToInt :
            /\ Validate(c)
            /\ c.Size \in MethodGridSizes
            /\ ~c.MineDensity.nan => nanInt = 0
            /\ gs = [g |-> placeMinesWithRNG(c, nanInt, NewGameState(c.Size, {}),
                                            rng).state,
                     out |-> GenerateResult(CalculateMineCount(c, nanInt))]
    /\ gen = Unused
    /\ mem = Unused
    /\ sp = Unused
    /\ secret = NoSecret
    /\ cl = [c \in Callers |-> NoCall]
    /\ store = NoState
    /\ pods = [name \in {} |-> [phase |-> "Running", hint |-> -1]]
    /\ queue = <<>>
    /\ wk = [k \in Workers |-> Idle]
    /\ delivered = {}
    /\ ndist = 0
    /\ last = NoHandler

NextGrid ==
    \/ \E c \in CallCoords(Max(MethodGridSizes)) : CallSetMine(c)
    \/ \E c \in CallCoords(Max(MethodGridSizes)) : CallReveal(c)
    \/ \E c \in Coords(Max(MethodGridSizes)) : CallBfsPropagation(c)
    \/ CallCheckVictory

SpecGrid == InitGrid /\ [][NextGrid]_vars

----------------------------------------------------------------------------
(* GameState *)

\* the mines among the cells of the grid that differ from c by at most one
\* in each direction and are not c
NeighbourMines(g, c) ==
    {m \in g.MineMap \cap Coords(g.Size) :
        /\ m # c
        /\ m[1] - c[1] \in -1..1
        /\ m[2] - c[2] \in -1..1}

\* C22: for every coordinate and every mine layout, AdjacentMines(x, y) is a
\* number of 0..8, the number of mines among the neighbours of (x, y) that
\* are in the grid: neither the cell itself nor a neighbour outside of the
\* grid counts.
C22_AdjacentMinesCountsNeighbours ==
    \A c \in CallCoords(gs.g.Size) :
        /\ AdjacentMines(gs.g, c[1], c[2]) \in 0..8
        /\ AdjacentMines(gs.g, c[1], c[2]) = Cardinality(NeighbourMines(gs.g, c))

\* bfsPropagation was called for the centre of a grid of size 3 with eight
\* mines around it, and for which the corner (0,0) has two mines around
C22_Witness ==
    /\ gs.g.Size = 3
    /\ gs.g.MineCount = 8
    /\ AdjacentMines(gs.g, 1, 1) = 8
    /\ AdjacentMines(gs.g, 0, 0) = 2
    /\ gs.out.op = "bfsPropagation"
    /\ gs.out.start = <<1, 1>>
    /\ gs.out.boundary = <<<<1, 1>>>>

----------------------------------------------------------------------------
(* bfsPropagation *)

\* C23: bfsPropagation terminates on every grid; a coordinate enters the
\* queue at most once and so leaves it at most once: every coordinate that
\* leaves the queue is appended to one of the two lists, so the two lists
\* together hold no coordinate twice, and no more coordinates than the grid
\* has; the lists have no duplicates and no coordinate in common.
C23_BfsVisitsOnce ==
    gs.out.op = "bfsPropagation" =>
        LET empty    == gs.out.empty
            boundary == gs.out.boundary
        IN  /\ Len(empty) + Len(boundary) =
                  Cardinality(Range(empty) \cup Range(boundary))
            /\ Len(empty) = Cardinality(Range(empty))
            /\ Len(boundary) = Cardinality(Range(boundary))
            /\ Range(empty) \cap Range(boundary) = {}
            /\ Range(empty) \cup Range(boundary) \subseteq Coords(gs.g.Size)
            /\ Len(empty) + Len(boundary) <= gs.g.Size * gs.g.Size

\* a flood fill on a grid of size 3 with one mine and one revealed cell that
\* found several empty cells, each a neighbour of several others, and
\* several boundary cells
C23_Witness ==
    /\ gs.out.op = "bfsPropagation"
    /\ gs.g.Size = 3
    /\ gs.g.MineCount = 1
    /\ Cardinality(gs.g.Revealed) = 1
    /\ Len(gs.out.empty) >= 3
    /\ Len(gs.out.boundary) >= 2

\* two different cells that differ by at most one in each direction
Adjacent(a, b) ==
    /\ a # b
    /\ a[1] - b[1] \in -1..1
    /\ a[2] - b[2] \in -1..1

\* the cells without a mine and without a mine next to them
ZeroCells(g) ==
    {c \in Coords(g.Size) : c \notin g.MineMap /\ NeighbourMines(g, c) = {}}

\* the cells of ZeroCells that a chain of adjacent cells of ZeroCells joins
\* to a cell of S
RECURSIVE Connected(_, _)
Connected(g, S) ==
    LET more == S \cup {c \in ZeroCells(g) : \E s \in S : Adjacent(s, c)}
    IN  IF more = S THEN S ELSE Connected(g, more)

\* C30: on a grid without revealed cells, for a start without a mine and
\* without a mine next to it, bfsPropagation returns as empty exactly the
\* cells without adjacent mines that a chain of such cells, each next to the
\* one before, joins to the start, and as boundary exactly the cells without
\* a mine, with adjacent mines, that are next to a cell of the first list:
\* nothing is reached through a boundary cell.
C30_FloodFillIsConnectedRegion ==
    (/\ gs.out.op = "bfsPropagation"
     /\ gs.g.Revealed = {}
     /\ gs.out.start \in ZeroCells(gs.g)) =>
        LET interior == Connected(gs.g, {gs.out.start})
        IN  /\ Range(gs.out.empty) = interior
            /\ Range(gs.out.boundary) =
                  {c \in Coords(gs.g.Size) \ gs.g.MineMap :
                      /\ NeighbourMines(gs.g, c) # {}
                      /\ \E i \in interior : Adjacent(i, c)}

\* a flood fill from (2,0) on a grid of size 3 whose one mine is at (0,1):
\* the row x = 2 is the region, the row x = 1 its boundary, and the cells
\* (0,0) and (0,2), next to boundary cells only, are in neither list
C30_Witness ==
    /\ gs.out.op = "bfsPropagation"
    /\ gs.g.Size = 3
    /\ gs.g.Revealed = {}
    /\ gs.g.MineMap = {<<0, 1>>}
    /\ gs.out.start = <<2, 0>>
    /\ Range(gs.out.empty) = {<<2, 0>>, <<2, 1>>, <<2, 2>>}
    /\ Range(gs.out.boundary) = {<<1, 0>>, <<1, 1>>, <<1, 2>>}

----------------------------------------------------------------------------
(* CheckVictory, MineCount *)

\* C25: CheckVictory() is true if and only if no cell of the grid is neither
\* a mine nor revealed, whatever the mines and whatever is revealed.
C25_CheckVictoryIffNoSafeCellLeft ==
    LET left == {c \in Coords(gs.g.Size) :
                    c \notin gs.g.MineMap /\ c \notin gs.g.Revealed}
    IN  /\ CheckVictory(gs.g) <=> left = {}
        /\ gs.out.op = "CheckVictory" => (gs.out.ok <=> left = {})

\* CheckVictory has returned true on a grid of size 3 whose eight mines are
\* not revealed and whose one safe cell is
C25_Witness ==
    /\ gs.out.op = "CheckVictory"
    /\ gs.out.ok
    /\ gs.g.Size = 3
    /\ gs.g.MineCount = 8
    /\ Cardinality(gs.g.Revealed) = 1
    /\ gs.g.Revealed \cap gs.g.MineMap = {}

\* C27: MineCount is the number of true entries of MineMap after any
\* sequence of SetMine calls, repeated ones and ones out of bounds included,
\* and in every generated grid, where it is also what CalculateMineCount
\* returns.
C27_MineCountIsNumberOfMines ==
    /\ gs.g.MineMap \subseteq Coords(gs.g.Size)
    /\ gs.g.MineCount = Cardinality(gs.g.MineMap)
    /\ gs.out.op = "Generate" => gs.g.MineCount = gs.out.count

\* SetMine has been called for a cell that was a mine already, on a grid
\* with another mine
C27_Witness ==
    /\ gs.out.op = "SetMine"
    /\ gs.out.ok
    /\ ~gs.out.changed
    /\ gs.g.MineCount = 2
    /\ Cardinality(gs.g.MineMap) = 2

----------------------------------------------------------------------------
(* The persisted document while deletion events are processed *)

\* the cells of the persisted grid that are neither mines nor revealed
SafeCellsLeft ==
    {c \in Grid : c \notin store.MineMap /\ c \notin store.Revealed}

\* C24: in every persisted document that the processing of deletion events
\* reaches from a generated grid, the status is Won if and only if no cell
\* is left that is neither a mine nor revealed.
C24_WonIffNoSafeCellLeft ==
    HasGame => (store.Status = StatusWon <=> SafeCellsLeft = {})

\* the game of a grid of size 3 with two mines was won by the reveal of a
\* hint cell, after other reveals, with a failed call on the way
C24_Witness ==
    /\ HasGame
    /\ store.Size = 3
    /\ store.MineCount = 2
    /\ store.Status = StatusWon
    /\ SafeCellsLeft = {}
    /\ store.Revealed \cap store.MineMap = {}
    /\ last.handler = "hint"
    /\ ndist >= 1

\* C26: what is revealed stays revealed: no step takes a coordinate out of
\* the revealed set of the persisted document, whatever events are processed
\* and whatever calls fail; the state a handler works on ends up in the
\* document with nothing unrevealed; and no method of the GameState, called
\* with the coordinate of the event at hand, returns a state with a revealed
\* coordinate less.
C26_RevealIsMonotonic ==
    [][HasGame =>
         /\ HasGame'
         /\ store.Revealed \subseteq store'.Revealed
         /\ \A k \in Workers :
              wk[k].pc = "handling" =>
                 LET g == wk[k].state
                     x == wk[k].coords[1]
                     y == wk[k].coords[2]
                 IN  /\ g.Revealed \subseteq store'.Revealed
                     /\ g.Revealed \subseteq Reveal(g, x, y).g.Revealed
                     /\ g.Revealed \subseteq Reveal(Reveal(g, x, y).g, x, y).g.Revealed
                     /\ g.Revealed \subseteq SetMine(g, x, y).g.Revealed
                     /\ g.Revealed \subseteq AddHintCell(g, x, y).Revealed
                     /\ g.Revealed \subseteq SetWon(g).Revealed
                     /\ g.Revealed \subseteq SetLost(g).Revealed]_vars

\* a mine was hit after a flood fill: the game is lost, the pods are wiped,
\* and the cells of the flood fill and the mine are revealed in the document
C26_Witness ==
    /\ HasGame
    /\ store.Status = StatusLost
    /\ last.handler = "mine" /\ ~last.err
    /\ Len(store.HintCells) >= 2
    /\ Cardinality(store.Revealed) >= 4
    /\ Range(store.HintCells) \subseteq store.Revealed
    /\ CellPods(pods) = {}

C29_WonLeavesOnlyMinePods ==
    (HasGame /\ store.Status = StatusWon) =>
        /\ \A c \in Grid \ store.MineMap : ~IsRunning(pods, PodName(c))
        /\ \A c \in Grid \ store.MineMap :
             AdjacentMines(store, c[1], c[2]) > 0 => HintPodName(c) \in DOMAIN pods

----------------------------------------------------------------------------
(* The seed a generated state records *)

\* C31: two states generated with the same configuration that record the
\* same seed have the same mine layout, by whichever calls they were made,
\* two successive Generate calls of one generator included: every state a
\* call returns has the layout of the first state returned with its seed.
C31_SameSeedSameLayout ==
    (gen.out.op # "none" /\ gen.out.seed \in Seeds) =>
        gen.out.state.MineMap = gen.recorded[gen.out.seed].MineMap

----------------------------------------------------------------------------
(* The order of HandleMineHit *)

\* a worker ends a handler in this step
HandlerEnds == \E k \in Workers : wk[k].pc = "handling" /\ wk'[k].pc = "idle"

\* the cell and hint pods that run
GamePodsRunning(p) ==
    {name \in DOMAIN p :
        (IsPodName(name) \/ IsHintPodName(name)) /\ p[name].phase = "Running"}

\* C32: HandleMineHit persists the lost game before the wipe deletes any cell
\* or hint pod, and wipes before it creates the explosion pod: a mine hit
\* whose Save fails deletes no pod and creates no explosion pod, whatever a
\* mine hit deletes or creates the lost game is persisted, and the explosion
\* pod is created only after a wipe that left no cell or hint pod running
\* unless its deletions failed.
C32_MineHitSavesThenWipesThenMarks ==
    [][(HandlerEnds /\ last'.handler = "mine") =>
          /\ last'.fault = "save" =>
                store' = store /\ pods' = pods /\ last'.err
          /\ pods' # pods => store'.Status = StatusLost
          /\ last'.fault = "list" =>
                /\ store'.Status = StatusLost
                /\ pods' = pods /\ last'.err
          /\ ExplosionName \in DOMAIN pods' =>
                /\ store'.Status = StatusLost
                /\ last'.fault # "delete" => GamePodsRunning(pods') = {}]_vars

\* a mine hit has been handled: the lost game is persisted, cell pods have
\* been wiped and the explosion pod exists
C32_Witness ==
    /\ last.handler = "mine" /\ ~last.err
    /\ HasGame /\ store.Status = StatusLost
    /\ store.Size >= 2
    /\ GamePodsRunning(pods) = {}
    /\ ExplosionName \in DOMAIN pods

----------------------------------------------------------------------------
(* The hint cells of the persisted game *)

\* the revealed safe coordinates of the grid with at least one adjacent mine
RevealedHintCoordinates ==
    {c \in Grid : /\ IsRevealed(store, c[1], c[2])
                  /\ ~IsMine(store, c[1], c[2])
                  /\ AdjacentMines(store, c[1], c[2]) > 0}

\* C33: in every persisted game, hintCells holds no coordinate twice, and
\* its elements are exactly the revealed safe coordinates of the grid that
\* have at least one adjacent mine.
C33_HintCellsAreRevealedHintCoordinates ==
    HasGame =>
        /\ \A i, j \in DOMAIN store.HintCells :
              store.HintCells[i] = store.HintCells[j] => i = j
        /\ Range(store.HintCells) = RevealedHintCoordinates

----------------------------------------------------------------------------
(* Events of cell names outside the grid *)

\* C34: a deletion event whose name matches the cell pattern and whose
\* coordinate lies outside the grid leaves the persisted game as it is: the
\* handling of it reveals no coordinate, adds nothing to hintCells, and
\* creates no hint pod.
C34_OutsideEventChangesNothing ==
    [][\A k \in Workers :
          (/\ wk[k].pc = "handling" /\ wk'[k].pc = "idle"
           /\ ~IsValidCoordinate(store, wk[k].coords[1], wk[k].coords[2])) =>
              /\ store' = store
              /\ \A name \in DOMAIN pods' :
                    IsHintPodName(name) => name \in DOMAIN pods]_vars

----------------------------------------------------------------------------
(* The deletions the controller makes itself *)

\* what a game shows of itself: status, revealed, hintCells and clicks
Shown(g) == IF g = NoState THEN g
            ELSE <<g.Status, g.Revealed, g.HintCells, g.Clicks>>

----------------------------------------------------------------------------
(* The pods of a game that has ended *)

\* C36: once the persisted status is Won the victory pod eventually exists,
\* and once it is Lost the explosion pod eventually exists and the cell and
\* hint pods are eventually all gone, also when the wipe or the creation of
\* the marker failed at first and the event is delivered again.
C36_EndedGameGetsItsMarker ==
    /\ (store.Status = StatusWon) ~> (VictoryName \in DOMAIN pods)
    /\ (store.Status = StatusLost) ~>
          (/\ ExplosionName \in DOMAIN pods
           /\ \A name \in DOMAIN pods : ~IsPodName(name) /\ ~IsHintPodName(name))

----------------------------------------------------------------------------
(* The revealed cells without adjacent mines *)

\* the revealed safe coordinates of the grid with no adjacent mine
RevealedEmptyCoordinates ==
    {c \in Grid : /\ IsRevealed(store, c[1], c[2])
                  /\ ~IsMine(store, c[1], c[2])
                  /\ AdjacentMines(store, c[1], c[2]) = 0}

\* C37: in every persisted game, each revealed safe coordinate with no
\* adjacent mine has every neighbour inside the grid revealed.
C37_RevealedEmptyCellHasRevealedNeighbours ==
    HasGame =>
        \A c \in RevealedEmptyCoordinates :
            \A n \in Grid : Adjacent(c, n) => IsRevealed(store, n[1], n[2])

\* a flood fill on a 3x3 grid with a mine has been persisted: an empty cell
\* is revealed with its neighbours, hint cells among them, and the game goes on
C37_Witness ==
    /\ HasGame /\ store.Size = 3 /\ store.MineCount >= 1
    /\ store.Status = StatusPlaying
    /\ last.handler = "empty" /\ ~last.err
    /\ Cardinality(RevealedEmptyCoordinates) >= 2
    /\ store.HintCells # <<>>

----------------------------------------------------------------------------
(* Revealed mines *)

\* C38: the persisted status is Lost only through the handling of the
\* deletion of a mine coordinate, and the flood fill and the hint handling
\* reveal no mine: a mine is revealed in the persisted game only when the
\* status is Lost, and then it is the one mine whose deletion was handled.
C38_MineRevealedOnlyWhenLost ==
    HasGame =>
        /\ store.Revealed \cap store.MineMap # {} => store.Status = StatusLost
        /\ store.Status = StatusLost =>
              /\ last.handler = "mine"
              /\ IsMine(store, last.coords[1], last.coords[2])
              /\ store.Revealed \cap store.MineMap = {last.coords}

\* a game is lost after a flood fill next to mines: the fill and its hint
\* cells have revealed four coordinates or more and no mine, the mine hit one
C38_Witness ==
    /\ HasGame /\ store.Status = StatusLost
    /\ last.handler = "mine"
    /\ store.HintCells # <<>>
    /\ Cardinality(store.Revealed \ store.MineMap) >= 4
    /\ Cardinality(store.Revealed \cap store.MineMap) = 1

----------------------------------------------------------------------------
(* The terminal markers *)

\* C39: the terminal markers agree with the persisted status: the victory
\* pod exists only when the status is Won, the explosion pod only when it is
\* Lost, and a game never has both.
C39_MarkersAgreeWithStatus ==
    /\ VictoryName \in DOMAIN pods => HasGame /\ store.Status = StatusWon
    /\ ExplosionName \in DOMAIN pods => HasGame /\ store.Status = StatusLost
    /\ ~(VictoryName \in DOMAIN pods /\ ExplosionName \in DOMAIN pods)

\* a game has been won by a hint cell after a flood fill, and the victory
\* pod exists next to the hint pods
C39_Witness ==
    /\ VictoryName \in DOMAIN pods
    /\ HasGame /\ store.Status = StatusWon
    /\ last.handler = "hint"
    /\ Len(store.HintCells) >= 2
    /\ \E name \in DOMAIN pods : IsHintPodName(name)

----------------------------------------------------------------------------
(* A hint pod that cannot be created *)

\* C40: when the creation of the hint pod fails in HandleHintCell, by a
\* failed call or because the name is taken, the handler returns the error
\* and does not call Save: the persisted game is as it was, the coordinate
\* unrevealed, hintCells and clicks unchanged, and no pod is touched.
C40_FailedHintPodLeavesStore ==
    [][\A k \in Workers :
          LET hint == HintPodName(wk[k].coords)
          IN  (/\ wk[k].pc = "handling" /\ wk'[k].pc = "idle"
               /\ last'.handler = "hint"
               /\ (hint \in DOMAIN pods \/ hint \notin DOMAIN pods')) =>
                  /\ last'.err /\ last'.saves = 0
                  /\ store' = store
                  /\ ~IsRevealed(store', wk[k].coords[1], wk[k].coords[2])
                  /\ pods' = pods]_vars

\* the hint pod of a cell next to a mine could not be created: the handler
\* has returned the error without a Save, the cell is unrevealed in the
\* store, no hint pod exists, and the event waits to be handled again
C40_Witness ==
    /\ HasGame /\ store.Status = StatusPlaying
    /\ last.handler = "hint" /\ last.fault = "createHint"
    /\ last.err /\ last.saves = 0
    /\ store.Clicks = 0
    /\ HintPodName(last.coords) \notin DOMAIN pods
    /\ ~IsRevealed(store, last.coords[1], last.coords[2])
    /\ last.coords \notin Range(store.HintCells)
    /\ Request(PodName(last.coords)) \in Range(queue)

====
